---- MODULE Spec2Model ----
(***************************************************************************)
(* Model of the akvirtualcamera DirectShow preferences store               *)
(* (src/dshow/PlatformUtils/src/preferences.cpp).                          *)
(*                                                                         *)
(* A std::string that is used as a registry key is a non-empty sequence of *)
(* segments: the text between two '\\' separators.  "Cameras\\size" is     *)
(* <<"Cameras", "size">>, "Cameras\\" is <<"Cameras", "">> and "" is       *)
(* <<"">>.  Every other string (paths, descriptions, value data) is a      *)
(* TLA+ string.                                                            *)
(***************************************************************************)
EXTENDS Integers, Sequences, FiniteSets, TLC

VARIABLES reg,          \* the registry below HKEY_CURRENT_USER: key path -> (value name -> <<type, data>>)
          cameraClsids, \* CLSIDs of the video input devices registered in the system
          last,         \* the last completed operation, its arguments and its result
                        \* (ret: a returned string, val: a returned integer,
                        \* sub: a returned key)
          returned,     \* the paths returned so far while only addCamera("", ...) has been called
          writeDenied,  \* the containers that RegCreateKeyExA fails to open or create for writing
          procs,        \* per thread: the operation it is in, its position and its locals
          mutex         \* the name of the Mutex object of each thread, the owner of each kernel mutex

vars == <<reg, cameraClsids, last, returned, writeDenied, procs, mutex>>

\* what an operation that runs in one piece leaves alone: the environment
\* of the store, the threads that run an operation step by step, the mutex
env == <<cameraClsids, writeDenied, procs, mutex>>

----------------------------------------------------------------------------
(* Bounds *)

MaxCameras == 2     \* addDevice is not called once this many cameras are counted
MaxFormats == 1     \* longest format list handed to addCamera
MaxStored == 2      \* cameraAddFormat is not called on a camera that counts this many formats
MaxRun == 3         \* longest recorded run of addCamera("", ...) calls
MaxArgc == 3        \* most arguments after the program name handed to parse

----------------------------------------------------------------------------
(* Strings *)

\* a + b for two strings in segment form
Cat(a, b) == SubSeq(a, 1, Len(a) - 1) \o <<a[Len(a)] \o b[1]>> \o Tail(b)

\* key.rfind('\\'): number of segments before the last separator, -1 for npos
RFindSep(key) == IF Len(key) = 1 THEN -1 ELSE Len(key) - 1

REG_PREFIX == <<"SOFTWARE", "Webcamoid", "VirtualCamera", "">>

DSHOW_PLUGIN_DEVICE_PREFIX == "AkVCamVideoDevice"

maxId == 64

\* the default of readInt's and readString's second parameter
DefaultInt == 0
DefaultString == ""

\* the log level of the library when none is stored
AKVCAM_LOGLEVEL_DEFAULT == -1

----------------------------------------------------------------------------
(* The registry backend *)

\* the registry ignores empty segments of a key path
NormPath(p) == SelectSeq(p, LAMBDA s : s # "")

IsPrefix(p, q) == Len(p) <= Len(q) /\ SubSeq(q, 1, Len(p)) = p

NoValues == [n \in {} |-> <<>>]

\* RegOpenKeyExA(HKEY_CURRENT_USER, subKey) == ERROR_SUCCESS
RegOpenKey(r, subKey) == NormPath(subKey) \in DOMAIN r

\* RegCreateKeyExA: opens the key, creating it and its missing ancestors
RegCreateKey(r, subKey) ==
    [k \in DOMAIN r \cup {SubSeq(NormPath(subKey), 1, n) :
                              n \in 0..Len(NormPath(subKey))} |->
        IF k \in DOMAIN r THEN r[k] ELSE NoValues]

\* RegSetValueExA on the open key subKey
RegSetValue(r, subKey, val, typedData) ==
    LET k == NormPath(subKey)
    IN  [r EXCEPT ![k] = [n \in DOMAIN r[k] \cup {val} |->
                             IF n = val THEN typedData ELSE r[k][n]]]

\* RegGetValueA(hkey, nullptr, val, dataTypeFlags) == ERROR_SUCCESS
RegHasValue(r, subKey, val, dataType) ==
    LET k == NormPath(subKey)
    IN  /\ val \in DOMAIN r[k]
        /\ r[k][val][1] = dataType

RegGetValue(r, subKey, val) == r[NormPath(subKey)][val][2]

\* RegDeleteValueA on the open key subKey
RegDeleteValue(r, subKey, val) ==
    LET k == NormPath(subKey)
    IN  [r EXCEPT ![k] = [n \in DOMAIN r[k] \ {val} |-> r[k][n]]]

\* deleteTree: removes the key subKey and everything beneath it
deleteTree(r, subKey) ==
    LET k == NormPath(subKey)
    IN  [c \in {d \in DOMAIN r : ~IsPrefix(k, d)} |-> r[c]]

\* copyTree: copies every value and every nested key of from into to;
\* what to already holds under another name stays
copyTree(r, from, to) ==
    LET f == NormPath(from)
        t == NormPath(to)
        Dest(c) == t \o SubSeq(c, Len(f) + 1, Len(c))
        srcs == {c \in DOMAIN r : IsPrefix(f, c)}
        Src(d) == CHOOSE c \in srcs : Dest(c) = d
        dsts == {Dest(c) : c \in srcs}
    IN  [d \in DOMAIN r \cup dsts |->
            IF d \notin dsts THEN r[d]
            ELSE LET old == IF d \in DOMAIN r THEN r[d] ELSE NoValues
                     new == r[Src(d)]
                 IN  [n \in DOMAIN old \cup DOMAIN new |->
                         IF n \in DOMAIN new THEN new[n] ELSE old[n]]]


\* copyTree failing part-way: the values of from itself are copied into to,
\* the nested keys are not
copyTreePart(r, from, to) ==
    LET f == NormPath(from)
        t == NormPath(to)
    IN  [r EXCEPT ![t] = [n \in DOMAIN r[t] \cup DOMAIN r[f] |->
                             IF n \in DOMAIN r[f] THEN r[f][n] ELSE r[t][n]]]

----------------------------------------------------------------------------
(* Typed key-value adapter *)

\* splitSubKey leaving out what precedes the last separator
splitSubKey_RootOnly(key) ==
    LET separator == RFindSep(key)
    IN  IF separator = -1
        THEN [subKey |-> REG_PREFIX, value |-> key[1]]
        ELSE [subKey |-> Cat(REG_PREFIX, <<"", "">>),
              value  |-> key[Len(key)]]

\* splitSubKey(key, subKey, value) as its callers use it, with subKey and
\* value empty before the call
splitSubKey(key) ==
    LET separator == RFindSep(key)
    IN  IF separator = -1
        THEN [subKey |-> REG_PREFIX, value |-> key[1]]
        ELSE [subKey |-> Cat(REG_PREFIX, Cat(<<"", "">>, SubSeq(key, 1, separator))),
              value  |-> key[Len(key)]]

readValue(r, key, dataType) ==
    LET s == splitSubKey(key)
    IN  IF ~RegOpenKey(r, s.subKey)
        THEN [ok |-> FALSE]
        ELSE IF ~RegHasValue(r, s.subKey, s.value, dataType)
             THEN [ok |-> FALSE]
             ELSE [ok |-> TRUE, data |-> RegGetValue(r, s.subKey, s.value)]

\* setValue writing although the container cannot be opened or created
setValue_IgnoresFailure(r, key, dataType, data) ==
    LET s == splitSubKey(key)
    IN  RegSetValue(RegCreateKey(r, s.subKey), s.subKey, s.value,
                    <<dataType, data>>)

setValue(r, key, dataType, data) ==
    LET s == splitSubKey(key)
    IN  IF NormPath(s.subKey) \in writeDenied
        THEN r
        ELSE RegSetValue(RegCreateKey(r, s.subKey), s.subKey, s.value,
                         <<dataType, data>>)

writeString(r, key, value) == setValue(r, key, "REG_SZ", value)

writeInt(r, key, value) == setValue(r, key, "REG_DWORD", value)

readString(r, key, defaultValue) ==
    LET v == readValue(r, key, "REG_SZ")
    IN  IF ~v.ok THEN defaultValue ELSE v.data

\* readInt returning 0 where the value cannot be read
readInt_ZeroOnMiss(r, key, defaultValue) ==
    LET v == readValue(r, key, "REG_DWORD")
    IN  IF ~v.ok THEN 0 ELSE v.data

readInt(r, key, defaultValue) ==
    LET v == readValue(r, key, "REG_DWORD")
    IN  IF ~v.ok THEN defaultValue ELSE v.data

\* deleteKey removing the container whatever the leaf name is
deleteKey_AlwaysTree(r, key) ==
    LET s == splitSubKey(key)
    IN  deleteTree(r, s.subKey)

deleteKey(r, key) ==
    LET s == splitSubKey(key)
    IN  IF s.value = ""
        THEN deleteTree(r, s.subKey)
        ELSE IF RegOpenKey(r, s.subKey)
             THEN RegDeleteValue(r, s.subKey, s.value)
             ELSE r

\* move deleting the source whatever copyTree returned
moveWith_DeletesAfterAnyCopy(r, keyFrom, keyTo, outcome) ==
    LET subKeyFrom == Cat(Cat(REG_PREFIX, <<"", "">>), keyFrom)
        subKeyTo == Cat(Cat(REG_PREFIX, <<"", "">>), keyTo)
    IN  IF outcome = "open" \/ ~RegOpenKey(r, subKeyFrom)
        THEN r
        ELSE IF outcome = "create"
        THEN r
        ELSE LET r1 == RegCreateKey(r, subKeyTo)
             IN  IF outcome = "ok"
                 THEN deleteKey(copyTree(r1, subKeyFrom, subKeyTo), keyFrom)
                 ELSE IF outcome = "copyPart"
                 THEN deleteKey(copyTreePart(r1, subKeyFrom, subKeyTo), keyFrom)
                 ELSE deleteKey(r1, keyFrom)

\* the registry after move(keyFrom, keyTo) whose backend calls end as outcome
moveWith(r, keyFrom, keyTo, outcome) ==
    LET subKeyFrom == Cat(Cat(REG_PREFIX, <<"", "">>), keyFrom)
        subKeyTo == Cat(Cat(REG_PREFIX, <<"", "">>), keyTo)
    IN  IF outcome = "open" \/ ~RegOpenKey(r, subKeyFrom)
        THEN r
        ELSE IF outcome = "create"
        THEN r
        ELSE LET r1 == RegCreateKey(r, subKeyTo)
             IN  IF outcome = "ok"
                 THEN deleteKey(copyTree(r1, subKeyFrom, subKeyTo), keyFrom)
                 ELSE IF outcome = "copyPart"
                 THEN copyTreePart(r1, subKeyFrom, subKeyTo)
                 ELSE r1

\* the registry after move(keyFrom, keyTo) with every backend call succeeding
move(r, keyFrom, keyTo) == moveWith(r, keyFrom, keyTo, "ok")

----------------------------------------------------------------------------
(* Video formats *)

\* pixel formats known to VideoFormat, by code; 0 is no format
FourccStrings == [c \in {1, 2} |-> IF c = 1 THEN "RGB24" ELSE "YUY2"]

stringFromFourcc(fourcc) ==
    IF fourcc \in DOMAIN FourccStrings THEN FourccStrings[fourcc] ELSE ""

fourccFromString(str) ==
    IF \E c \in DOMAIN FourccStrings : FourccStrings[c] = str
    THEN CHOOSE c \in DOMAIN FourccStrings : FourccStrings[c] = str
    ELSE 0

Fractions == {[num |-> 30, den |-> 1], [num |-> 15, den |-> 2]}

\* Fraction::toString
FractionToString(f) == ToString(f.num) \o "/" \o ToString(f.den)

\* Fraction(const std::string &): text that is no fraction gives 0/1
FractionFromString(str) ==
    IF \E f \in Fractions : FractionToString(f) = str
    THEN CHOOSE f \in Fractions : FractionToString(f) = str
    ELSE [num |-> 0, den |-> 1]

VideoFormat(fourcc, width, height, fps) ==
    [fourcc |-> fourcc, width |-> width, height |-> height, fps |-> fps]

\* VideoFormat::operator bool
IsValidFormat(f) == f.fourcc \in DOMAIN FourccStrings

FormatA == VideoFormat(1, 640, 480, [num |-> 30, den |-> 1])
FormatB == VideoFormat(2, 320, 240, [num |-> 15, den |-> 2])

Formats == {FormatA, FormatB}

----------------------------------------------------------------------------
(* Camera / format / control schema *)

\* "Cameras\\" + std::to_string(n) + suffix
CameraKey(n, suffix) == Cat(Cat(<<"Cameras", "">>, <<ToString(n)>>), suffix)

\* "Cameras\\" + std::to_string(n) + "\\Formats\\" + std::to_string(m)
FormatPrefix(n, m) == Cat(CameraKey(n, <<"", "Formats", "">>), <<ToString(m)>>)

camerasCount(r) == readInt(r, <<"Cameras", "size">>, DefaultInt)

cameraPath(r, cameraIndex) ==
    readString(r, CameraKey(cameraIndex + 1, <<"", "path">>), DefaultString)

cameraDescription(r, cameraIndex) ==
    IF cameraIndex >= camerasCount(r)
    THEN ""
    ELSE readString(r, CameraKey(cameraIndex + 1, <<"", "description">>),
                    DefaultString)

cameraSetDescription(r, cameraIndex, description) ==
    IF cameraIndex >= camerasCount(r)
    THEN r
    ELSE writeString(r, CameraKey(cameraIndex + 1, <<"", "description">>),
                     description)

formatsCount(r, cameraIndex) ==
    readInt(r, CameraKey(cameraIndex + 1, <<"", "Formats", "size">>), DefaultInt)

cameraFormat(r, cameraIndex, formatIndex) ==
    LET prefix == FormatPrefix(cameraIndex + 1, formatIndex + 1)
        format == readString(r, Cat(prefix, <<"", "format">>), DefaultString)
        fourcc == fourccFromString(format)
        width == readInt(r, Cat(prefix, <<"", "width">>), DefaultInt)
        height == readInt(r, Cat(prefix, <<"", "height">>), DefaultInt)
        fps == FractionFromString(readString(r, Cat(prefix, <<"", "fps">>),
                                             DefaultString))
    IN  VideoFormat(fourcc, width, height, fps)

\* the valid formats among the first formatsCount entries, in order
cameraFormats(r, cameraIndex) ==
    LET all == [i \in 1..formatsCount(r, cameraIndex) |->
                   cameraFormat(r, cameraIndex, i - 1)]
    IN  SelectSeq(all, IsValidFormat)

\* the four writes of one format record below prefix
writeFormat(r, prefix, format) ==
    LET r1 == writeString(r, Cat(prefix, <<"", "format">>),
                          stringFromFourcc(format.fourcc))
        r2 == writeInt(r1, Cat(prefix, <<"", "width">>), format.width)
        r3 == writeInt(r2, Cat(prefix, <<"", "height">>), format.height)
    IN  writeString(r3, Cat(prefix, <<"", "fps">>), FractionToString(format.fps))

\* for (i = from; i < formats.size(); i++) write formats[i] below
\* "Cameras\\" + std::to_string(n) + "\\Formats\\" + std::to_string(i + 1)
RECURSIVE writeFormats(_, _, _, _)
writeFormats(r, n, formats, from) ==
    IF from >= Len(formats)
    THEN r
    ELSE writeFormats(writeFormat(r, FormatPrefix(n, from + 1), formats[from + 1]),
                      n, formats, from + 1)

\* the identifier derived from a device path (a digest of its text)
createClsidFromStr(str) == <<"CLSID", str>>

DevicePath(i) == DSHOW_PLUGIN_DEVICE_PREFIX \o ToString(i)

Min(S) == CHOOSE x \in S : \A y \in S : x <= y

\* createDevicePath without the comparison with the registered paths
createDevicePath_ClsidOnly(r, clsids) ==
    LET free == {i \in 0..(maxId - 1) :
                    createClsidFromStr(DevicePath(i)) \notin clsids}
    IN  IF free = {} THEN "" ELSE DevicePath(Min(free))

\* createDevicePath with the probe starting at index 1
createDevicePath_FromOne(r, clsids) ==
    LET cameraPaths == {cameraPath(r, i) : i \in 0..(camerasCount(r) - 1)}
        free == {i \in 1..(maxId - 1) :
                    /\ DevicePath(i) \notin cameraPaths
                    /\ createClsidFromStr(DevicePath(i)) \notin clsids}
    IN  IF free = {} THEN "" ELSE DevicePath(Min(free))

\* createDevicePath with the probe running up to index maxId inclusive
createDevicePath_ProbeOneMore(r, clsids) ==
    LET cameraPaths == {cameraPath(r, i) : i \in 0..(camerasCount(r) - 1)}
        free == {i \in 0..maxId :
                    /\ DevicePath(i) \notin cameraPaths
                    /\ createClsidFromStr(DevicePath(i)) \notin clsids}
    IN  IF free = {} THEN "" ELSE DevicePath(Min(free))

createDevicePath(r, clsids) ==
    LET cameraPaths == {cameraPath(r, i) : i \in 0..(camerasCount(r) - 1)}
        free == {i \in 0..(maxId - 1) :
                    /\ DevicePath(i) \notin cameraPaths
                    /\ createClsidFromStr(DevicePath(i)) \notin clsids}
    IN  IF free = {} THEN "" ELSE DevicePath(Min(free))

cameraFromPath(r, path) ==
    LET found == {i \in 0..(camerasCount(r) - 1) : cameraPath(r, i) = path}
    IN  IF found = {} THEN -1 ELSE Min(found)

cameraExists(r, path) ==
    \E i \in 0..(camerasCount(r) - 1) : cameraPath(r, i) = path

\* addDevice writing the new camera at the index of the last one
addDevice_NoIncrement(r, clsids, description) ==
    LET path == createDevicePath(r, clsids)
        cameraIndex == readInt(r, <<"Cameras", "size">>, DefaultInt)
        r1 == writeInt(r, <<"Cameras", "size">>, cameraIndex + 1)
        r2 == writeString(r1, CameraKey(cameraIndex, <<"", "description">>),
                          description)
        r3 == writeString(r2, CameraKey(cameraIndex, <<"", "path">>), path)
    IN  [reg |-> r3, ret |-> path]

\* addDevice(description): the registry afterwards and the returned path
addDevice(r, clsids, description) ==
    LET path == createDevicePath(r, clsids)
        cameraIndex == readInt(r, <<"Cameras", "size">>, DefaultInt) + 1
        r1 == writeInt(r, <<"Cameras", "size">>, cameraIndex)
        r2 == writeString(r1, CameraKey(cameraIndex, <<"", "description">>),
                          description)
        r3 == writeString(r2, CameraKey(cameraIndex, <<"", "path">>), path)
    IN  [reg |-> r3, ret |-> path]

\* addCamera without the test for a registered path
addCamera_NoExistsCheck(r, clsids, path, description, formats) ==
    LET path_ == IF path = "" THEN createDevicePath(r, clsids) ELSE path
        cameraIndex == readInt(r, <<"Cameras", "">>, DefaultInt) + 1
        r1 == writeInt(r, <<"Cameras", "size">>, cameraIndex)
        r2 == writeString(r1, CameraKey(cameraIndex, <<"", "description">>),
                          description)
        r3 == writeString(r2, CameraKey(cameraIndex, <<"", "path">>), path_)
        r4 == writeInt(r3, CameraKey(cameraIndex, <<"", "Formats", "size">>),
                       Len(formats))
    IN  [reg |-> writeFormats(r4, cameraIndex, formats, 0), ret |-> path_]

\* addCamera(path, description, formats)
addCamera(r, clsids, path, description, formats) ==
    IF path # "" /\ cameraExists(r, path)
    THEN [reg |-> r, ret |-> ""]
    ELSE
    LET path_ == IF path = "" THEN createDevicePath(r, clsids) ELSE path
        cameraIndex == readInt(r, <<"Cameras", "">>, DefaultInt) + 1
        r1 == writeInt(r, <<"Cameras", "size">>, cameraIndex)
        r2 == writeString(r1, CameraKey(cameraIndex, <<"", "description">>),
                          description)
        r3 == writeString(r2, CameraKey(cameraIndex, <<"", "path">>), path_)
        r4 == writeInt(r3, CameraKey(cameraIndex, <<"", "Formats", "size">>),
                       Len(formats))
    IN  [reg |-> writeFormats(r4, cameraIndex, formats, 0), ret |-> path_]

\* cameraSetFormats with the write loop starting at the second format
cameraSetFormats_SkipFirst(r, cameraIndex, formats) ==
    IF cameraIndex >= camerasCount(r)
    THEN r
    ELSE
    LET r1 == deleteKey(r, CameraKey(cameraIndex + 1, <<"", "Formats", "">>))
        r2 == writeInt(r1, CameraKey(cameraIndex + 1, <<"", "Formats", "size">>),
                       Len(formats))
    IN  writeFormats(r2, cameraIndex + 1, formats, 1)

cameraSetFormats(r, cameraIndex, formats) ==
    IF cameraIndex >= camerasCount(r)
    THEN r
    ELSE
    LET r1 == deleteKey(r, CameraKey(cameraIndex + 1, <<"", "Formats", "">>))
        r2 == writeInt(r1, CameraKey(cameraIndex + 1, <<"", "Formats", "size">>),
                       Len(formats))
    IN  writeFormats(r2, cameraIndex + 1, formats, 0)

\* formats.insert(formats.begin() + index, format)
Insert(formats, index, format) ==
    SubSeq(formats, 1, index) \o <<format>>
        \o SubSeq(formats, index + 1, Len(formats))

\* formats.erase(formats.begin() + index)
Erase(formats, index) ==
    SubSeq(formats, 1, index) \o SubSeq(formats, index + 2, Len(formats))

\* cameraAddFormat putting the format first when the index is out of range
cameraAddFormat_ClampToFront(r, cameraIndex, format, index) ==
    LET formats == cameraFormats(r, cameraIndex)
        index_ == IF index < 0 \/ index > Len(formats) THEN 0 ELSE index
        formats_ == Insert(formats, index_, format)
        r1 == writeInt(r, CameraKey(cameraIndex + 1, <<"", "Formats", "size">>),
                       Len(formats_))
    IN  writeFormats(r1, cameraIndex + 1, formats_, 0)

cameraAddFormat(r, cameraIndex, format, index) ==
    LET formats == cameraFormats(r, cameraIndex)
        index_ == IF index < 0 \/ index > Len(formats)
                  THEN Len(formats) ELSE index
        formats_ == Insert(formats, index_, format)
        r1 == writeInt(r, CameraKey(cameraIndex + 1, <<"", "Formats", "size">>),
                       Len(formats_))
    IN  writeFormats(r1, cameraIndex + 1, formats_, 0)

\* cameraRemoveFormat taking a negative index for the first format
cameraRemoveFormat_NegativeIsFirst(r, cameraIndex, index) ==
    LET formats == cameraFormats(r, cameraIndex)
        index_ == IF index < 0 THEN 0 ELSE index
    IN  IF index_ >= Len(formats)
        THEN r
        ELSE
        LET formats_ == Erase(formats, index_)
            r1 == writeInt(r, CameraKey(cameraIndex + 1,
                                        <<"", "Formats", "size">>),
                           Len(formats_))
        IN  writeFormats(r1, cameraIndex, formats_, 0)

cameraRemoveFormat(r, cameraIndex, index) ==
    LET formats == cameraFormats(r, cameraIndex)
    IN  IF index < 0 \/ index >= Len(formats)
        THEN r
        ELSE
        LET formats_ == Erase(formats, index)
            r1 == writeInt(r, CameraKey(cameraIndex + 1,
                                        <<"", "Formats", "size">>),
                           Len(formats_))
        IN  writeFormats(r1, cameraIndex, formats_, 0)

\* for (i = from; i < nCameras; i++) move camera i + 1 to camera i
RECURSIVE moveCameras(_, _, _)
moveCameras(r, from, nCameras) ==
    IF from >= nCameras
    THEN r
    ELSE moveCameras(move(r, Cat(<<"Cameras", "">>, <<ToString(from + 1)>>),
                             Cat(<<"Cameras", "">>, <<ToString(from)>>)),
                     from + 1, nCameras)

\* removeCamera with the shift starting one camera too late
removeCamera_ShiftFromNext(r, path) ==
    LET cameraIndex == cameraFromPath(r, path)
    IN  IF cameraIndex < 0
        THEN r
        ELSE
        LET r1 == cameraSetFormats(r, cameraIndex, <<>>)
            nCameras == camerasCount(r1)
            r2 == deleteKey(r1, CameraKey(cameraIndex + 1, <<"", "">>))
            r3 == moveCameras(r2, cameraIndex + 2, nCameras)
        IN  IF nCameras > 1
            THEN writeInt(r3, <<"Cameras", "size">>, nCameras - 1)
            ELSE deleteKey(r3, <<"Cameras", "">>)

\* removeCamera taking the first camera when the path is not found
removeCamera_FirstOnMiss(r, path) ==
    LET found == cameraFromPath(r, path)
        cameraIndex == IF found < 0 THEN 0 ELSE found
    IN  LET r1 == cameraSetFormats(r, cameraIndex, <<>>)
            nCameras == camerasCount(r1)
            r2 == deleteKey(r1, CameraKey(cameraIndex + 1, <<"", "">>))
            r3 == moveCameras(r2, cameraIndex + 1, nCameras)
        IN  IF nCameras > 1
            THEN writeInt(r3, <<"Cameras", "size">>, nCameras - 1)
            ELSE deleteKey(r3, <<"Cameras", "">>)

\* removeCamera deleting the root container with the last camera
removeCamera_DeletesRoot(r, path) ==
    LET cameraIndex == cameraFromPath(r, path)
    IN  IF cameraIndex < 0
        THEN r
        ELSE
        LET r1 == cameraSetFormats(r, cameraIndex, <<>>)
            nCameras == camerasCount(r1)
            r2 == deleteKey(r1, CameraKey(cameraIndex + 1, <<"", "">>))
            r3 == moveCameras(r2, cameraIndex + 1, nCameras)
        IN  IF nCameras > 1
            THEN writeInt(r3, <<"Cameras", "size">>, nCameras - 1)
            ELSE deleteKey(r3, <<"">>)

removeCamera(r, path) ==
    LET cameraIndex == cameraFromPath(r, path)
    IN  IF cameraIndex < 0
        THEN r
        ELSE
        LET r1 == cameraSetFormats(r, cameraIndex, <<>>)
            nCameras == camerasCount(r1)
            r2 == deleteKey(r1, CameraKey(cameraIndex + 1, <<"", "">>))
            r3 == moveCameras(r2, cameraIndex + 1, nCameras)
        IN  IF nCameras > 1
            THEN writeInt(r3, <<"Cameras", "size">>, nCameras - 1)
            ELSE deleteKey(r3, <<"Cameras", "">>)

cameraControlValue(r, cameraIndex, key) ==
    readInt(r, Cat(CameraKey(cameraIndex + 1, <<"", "Controls", "">>), <<key>>),
            DefaultInt)

\* cameraSetControlValue addressing the container numbered cameraIndex
cameraSetControlValue_IndexAsContainer(r, cameraIndex, key, value) ==
    writeInt(r, Cat(CameraKey(cameraIndex, <<"", "Controls", "">>), <<key>>),
             value)

cameraSetControlValue(r, cameraIndex, key, value) ==
    writeInt(r, Cat(CameraKey(cameraIndex + 1, <<"", "Controls", "">>), <<key>>),
             value)

picture(r) == readString(r, <<"picture">>, DefaultString)

setPicture(r, picture_) == writeString(r, <<"picture">>, picture_)

logLevel(r) == readInt(r, <<"loglevel">>, AKVCAM_LOGLEVEL_DEFAULT)

setLogLevel(r, logLevel_) == writeInt(r, <<"loglevel">>, logLevel_)

----------------------------------------------------------------------------
(* Operations *)

Descriptions == {"Cam A", "Cam B"}

\* paths a caller hands to addCamera and removeCamera
CallerPaths == {"", DevicePath(1)}

\* a path that is never registered
MissingPath == "webcam"

NoArgs == [path |-> "", description |-> "", formats |-> <<>>,
           cameraIndex |-> -1, index |-> -1, keyFrom |-> <<"">>, keyTo |-> <<"">>,
           key |-> <<"">>, value |-> 0, defaultInt |-> 0, defaultString |-> "",
           available |-> TRUE, picture |-> "", outcome |-> "ok"]

NoSeen == [count |-> 0, index |-> -1]

NoRun == [valid |-> FALSE, paths |-> <<>>]

\* the threads that call the store
Procs == {1, 2}

\* a thread outside of any operation
Idle ==
    [op |-> "idle", pc |-> "", path |-> "", description |-> "",
     formats |-> <<>>, path_ |-> "", cameraIndex |-> 0, nCameras |-> 0,
     i |-> 0, ret |-> "", start |-> NoValues]

\* CreateMutexA giving every caller the same kernel mutex, named or not
CreateMutexA_OneUnnamed(name, p) == <<name, 0>>

\* CreateMutexA(nullptr, FALSE, name): the kernel mutex that the Mutex object
\* of thread p refers to; one per non-empty name, a new one for no name
CreateMutexA(name, p) == IF name = "" THEN <<"", p>> ELSE <<name, 0>>

\* the Mutex objects of all threads made with name, none of them locked
Mutex(name) ==
    [name |-> [p \in Procs |-> name],
     owner |-> [m \in {CreateMutexA(n, p) :
                          n \in {"", "AkVCamMutex", name}, p \in Procs} |-> 0]]

\* the store before its first use
InitStore ==
    /\ procs = [p \in Procs |-> Idle]
    /\ mutex = Mutex("AkVCamMutex")
    /\ reg = NoValues
    /\ last = [op |-> "none", args |-> NoArgs, ret |-> "", val |-> 0,
               sub |-> <<"">>, seen |-> NoSeen]
    /\ returned = [valid |-> TRUE, paths |-> <<>>]

Init ==
    /\ InitStore
    /\ cameraClsids \in
          {{createClsidFromStr(DevicePath(i)) : i \in ids} :
              ids \in {{}, {0}, 1..(maxId - 1), 0..(maxId - 1)}}
    /\ writeDenied = {}

CreateDevicePath ==
    /\ reg' = reg
    /\ last' = [op |-> "createDevicePath", args |-> NoArgs,
                ret |-> createDevicePath(reg, cameraClsids),
                val |-> 0, sub |-> <<"">>, seen |-> NoSeen]
    /\ returned' = NoRun
    /\ UNCHANGED env

\* addDevice called with a description out of descriptions
AddDeviceOf(descriptions) ==
    \E description \in descriptions :
        LET res == addDevice(reg, cameraClsids, description)
        IN  /\ camerasCount(reg) < MaxCameras
            /\ reg' = res.reg
            /\ last' = [op |-> "addDevice",
                        args |-> [NoArgs EXCEPT !.description = description],
                        ret |-> res.ret, val |-> 0, sub |-> <<"">>, seen |-> NoSeen]
            /\ returned' = NoRun
            /\ UNCHANGED env

AddDevice == AddDeviceOf({"Cam A"})

\* the arguments are recorded as far as addCamera reads them; the format
\* lists are the first n formats of A, B, A, B, ...
AddCamera ==
    \E path \in CallerPaths, description \in Descriptions,
       formats \in {[i \in 1..n |-> IF i % 2 = 1 THEN FormatA ELSE FormatB] :
                       n \in 0..MaxFormats} :
        LET res == addCamera(reg, cameraClsids, path, description, formats)
        IN  /\ reg' = res.reg
            /\ last' = [op |-> "addCamera",
                        args |-> IF path # "" /\ cameraExists(reg, path)
                                 THEN [NoArgs EXCEPT !.path = path]
                                 ELSE [NoArgs EXCEPT !.path = path,
                                                     !.description = description,
                                                     !.formats = formats],
                        ret |-> res.ret, val |-> 0, sub |-> <<"">>, seen |-> NoSeen]
            /\ returned' = IF returned.valid /\ path = ""
                                /\ Len(returned.paths) < MaxRun
                             THEN [returned EXCEPT !.paths = Append(@, res.ret)]
                             ELSE NoRun
            /\ UNCHANGED env

\* removeCamera is called with the path of a registered camera or with a
\* path that no camera has
RemoveCamera ==
    \E path \in {cameraPath(reg, j) : j \in 0..(camerasCount(reg) - 1)}
                    \cup {MissingPath} :
        /\ reg' = removeCamera(reg, path)
        /\ last' = [op |-> "removeCamera",
                    args |-> [NoArgs EXCEPT !.path = path], ret |-> "",
                    val |-> 0, sub |-> <<"">>, seen |-> [count |-> camerasCount(reg),
                             index |-> cameraFromPath(reg, path)]]
        /\ returned' = NoRun
        /\ UNCHANGED env

Next == CreateDevicePath \/ AddDevice \/ AddCamera \/ RemoveCamera

Spec == Init /\ [][Next]_vars

(* Format operations on a camera created by addDevice *)

\* the camera index the format operations are called with, whether or not
\* a camera is registered at it
FormatCameras == {0}

\* what a format operation saw when it started: the format count of its camera
SeenFormats(r, cameraIndex) ==
    [count |-> formatsCount(r, cameraIndex), index |-> -1]

CameraAddFormat ==
    \E cameraIndex \in FormatCameras, format \in Formats,
       index \in -1..MaxStored :
        /\ formatsCount(reg, cameraIndex) < MaxStored
        /\ reg' = cameraAddFormat(reg, cameraIndex, format, index)
        /\ last' = [op |-> "cameraAddFormat",
                    args |-> [NoArgs EXCEPT !.cameraIndex = cameraIndex,
                                            !.formats = <<format>>,
                                            !.index = index],
                    ret |-> "", val |-> 0, sub |-> <<"">>, seen |-> SeenFormats(reg, cameraIndex)]
        /\ returned' = NoRun
        /\ UNCHANGED env

CameraRemoveFormat ==
    \E cameraIndex \in FormatCameras, index \in -1..MaxStored :
        /\ reg' = cameraRemoveFormat(reg, cameraIndex, index)
        /\ last' = [op |-> "cameraRemoveFormat",
                    args |-> [NoArgs EXCEPT !.cameraIndex = cameraIndex,
                                            !.index = index],
                    ret |-> "", val |-> 0, sub |-> <<"">>, seen |-> NoSeen]
        /\ returned' = NoRun
        /\ UNCHANGED env

\* the format lists handed to cameraSetFormats
SetFormatLists == {<<>>, <<FormatB>>, <<FormatB, FormatA>>}

\* cameraSetFormats called with a list out of lists
CameraSetFormatsOf(lists) ==
    \E cameraIndex \in FormatCameras, formats \in lists :
        /\ reg' = cameraSetFormats(reg, cameraIndex, formats)
        /\ last' = [op |-> "cameraSetFormats",
                    args |-> [NoArgs EXCEPT !.cameraIndex = cameraIndex,
                                            !.formats = formats],
                    ret |-> "", val |-> 0, sub |-> <<"">>, seen |-> SeenFormats(reg, cameraIndex)]
        /\ returned' = NoRun
        /\ UNCHANGED env

CameraSetFormats == CameraSetFormatsOf(SetFormatLists)

\* the store on a system without registered video input devices
InitClean == Init /\ cameraClsids = {}

NextFormats ==
    AddDevice \/ CameraSetFormats \/ CameraAddFormat \/ CameraRemoveFormat

SpecFormats == InitClean /\ [][NextFormats]_vars

(* Descriptions and controls *)

\* the camera indices and control names handed to cameraSetDescription,
\* cameraSetControlValue and cameraControlValue
ControlCameras == {0, 1}
ControlNames == {"hue", "contrast"}

CameraSetDescription ==
    \E cameraIndex \in ControlCameras :
        /\ reg' = cameraSetDescription(reg, cameraIndex, "Cam B")
        /\ last' = [op |-> "cameraSetDescription",
                    args |-> [NoArgs EXCEPT !.cameraIndex = cameraIndex,
                                            !.description = "Cam B"],
                    ret |-> "", val |-> 0, sub |-> <<"">>, seen |-> NoSeen]
        /\ returned' = NoRun
        /\ UNCHANGED env

\* cameraSetControlValue called with an index, a name and a value out of
\* the given sets
CameraSetControlValueOf(cameras, names, values) ==
    \E cameraIndex \in cameras, key \in names, value \in values :
        /\ reg' = cameraSetControlValue(reg, cameraIndex, key, value)
        /\ last' = [op |-> "cameraSetControlValue",
                    args |-> [NoArgs EXCEPT !.cameraIndex = cameraIndex,
                                            !.key = <<key>>,
                                            !.value = value],
                    ret |-> "", val |-> 0, sub |-> <<"">>, seen |-> NoSeen]
        /\ returned' = NoRun
        /\ UNCHANGED env

CameraSetControlValue ==
    CameraSetControlValueOf(ControlCameras, ControlNames, {5, 7})

CameraSetOneFormat == CameraSetFormatsOf({<<FormatB>>})

NextControls ==
    \/ AddDevice
    \/ CameraSetOneFormat
    \/ CameraSetDescription
    \/ CameraSetControlValue

SpecControls == InitClean /\ [][NextControls]_vars

(* Global settings next to the device registry *)

SetPicture ==
    \E picture_ \in {"a.png", "b.png"} :
        /\ reg' = setPicture(reg, picture_)
        /\ last' = [op |-> "setPicture",
                    args |-> [NoArgs EXCEPT !.picture = picture_],
                    ret |-> "", val |-> 0, sub |-> <<"">>, seen |-> NoSeen]
        /\ returned' = NoRun
        /\ UNCHANGED env

SetLogLevel ==
    \E logLevel_ \in {4, 7} :
        /\ reg' = setLogLevel(reg, logLevel_)
        /\ last' = [op |-> "setLogLevel",
                    args |-> [NoArgs EXCEPT !.value = logLevel_],
                    ret |-> "", val |-> 0, sub |-> <<"">>, seen |-> NoSeen]
        /\ returned' = NoRun
        /\ UNCHANGED env

CameraSetHue == CameraSetControlValueOf({0}, {"hue"}, {5})

NextSettings ==
    \/ AddDevice
    \/ RemoveCamera
    \/ CameraSetOneFormat
    \/ CameraSetHue
    \/ SetPicture
    \/ SetLogLevel

SpecSettings == InitClean /\ [][NextSettings]_vars

(* Writes to containers that cannot be opened *)

RootKey == <<"SOFTWARE", "Webcamoid", "VirtualCamera">>

\* one container refuses to be opened for writing: the root, the Cameras
\* container, the container of the first camera or its controls
InitDenied ==
    /\ InitStore
    /\ cameraClsids = {}
    /\ writeDenied \in {{RootKey}, {RootKey \o <<"Cameras">>},
                        {RootKey \o <<"Cameras", "1">>},
                        {RootKey \o <<"Cameras", "1", "Controls">>}}

NextDenied ==
    AddDevice \/ CameraSetHue \/ SetPicture \/ SetLogLevel

SpecDenied == InitDenied /\ [][NextDenied]_vars

(* Removal below cameras that have data of their own *)

\* addDevice called while at most MaxCameras cameras are registered
AddDeviceMore ==
    \E description \in Descriptions :
        LET res == addDevice(reg, cameraClsids, description)
        IN  /\ camerasCount(reg) <= MaxCameras
            /\ reg' = res.reg
            /\ last' = [op |-> "addDevice",
                        args |-> [NoArgs EXCEPT !.description = description],
                        ret |-> res.ret, val |-> 0, sub |-> <<"">>, seen |-> NoSeen]
            /\ returned' = NoRun
            /\ UNCHANGED env

\* three cameras, a control of the second one set, any of them removed
NextShift ==
    \/ AddDeviceMore \/ CameraSetControlValueOf({1}, {"hue"}, {5})
    \/ CameraSetOneFormat \/ RemoveCamera

SpecShift == InitClean /\ [][NextShift]_vars

(* Compound operations as sequences of backend calls *)

\* addDevice reading the count again when it writes it
addDeviceStep_CountAtWrite(r, clsids, q) ==
    CASE q.pc = "createDevicePath" ->
            [reg |-> r,
             proc |-> [q EXCEPT !.path = createDevicePath(r, clsids),
                                !.pc = "readSize"]]
      [] q.pc = "readSize" ->
            [reg |-> r,
             proc |-> [q EXCEPT !.cameraIndex =
                                    readInt(r, <<"Cameras", "size">>, DefaultInt) + 1,
                                !.pc = "size"]]
      [] q.pc = "size" ->
            [reg |-> writeInt(r, <<"Cameras", "size">>,
                              readInt(r, <<"Cameras", "size">>, DefaultInt) + 1),
             proc |-> [q EXCEPT !.pc = "description"]]
      [] q.pc = "description" ->
            [reg |-> writeString(r, CameraKey(q.cameraIndex, <<"", "description">>),
                                 q.description),
             proc |-> [q EXCEPT !.pc = "path"]]
      [] q.pc = "path" ->
            [reg |-> writeString(r, CameraKey(q.cameraIndex, <<"", "path">>),
                                 q.path),
             proc |-> [q EXCEPT !.pc = "return", !.ret = q.path]]

\* one statement of addDevice run by a thread in state q on the registry r
addDeviceStep(r, clsids, q) ==
    CASE q.pc = "createDevicePath" ->
            [reg |-> r,
             proc |-> [q EXCEPT !.path = createDevicePath(r, clsids),
                                !.pc = "readSize"]]
      [] q.pc = "readSize" ->
            [reg |-> r,
             proc |-> [q EXCEPT !.cameraIndex =
                                    readInt(r, <<"Cameras", "size">>, DefaultInt) + 1,
                                !.pc = "size"]]
      [] q.pc = "size" ->
            [reg |-> writeInt(r, <<"Cameras", "size">>, q.cameraIndex),
             proc |-> [q EXCEPT !.pc = "description"]]
      [] q.pc = "description" ->
            [reg |-> writeString(r, CameraKey(q.cameraIndex, <<"", "description">>),
                                 q.description),
             proc |-> [q EXCEPT !.pc = "path"]]
      [] q.pc = "path" ->
            [reg |-> writeString(r, CameraKey(q.cameraIndex, <<"", "path">>),
                                 q.path),
             proc |-> [q EXCEPT !.pc = "return", !.ret = q.path]]

\* where addCamera continues after the format at position i (from 0)
AfterFormat(q, i) ==
    IF i < Len(q.formats)
    THEN [q EXCEPT !.i = i, !.pc = "format"]
    ELSE [q EXCEPT !.i = i, !.pc = "return", !.ret = q.path_]

\* addCamera writing the path before the description
addCameraStep_PathFirst(r, clsids, q) ==
    LET prefix == FormatPrefix(q.cameraIndex, q.i + 1)
        format == q.formats[q.i + 1]
    IN
    CASE q.pc = "cameraExists" ->
            [reg |-> r,
             proc |-> IF q.path # "" /\ cameraExists(r, q.path)
                      THEN [q EXCEPT !.pc = "return", !.ret = ""]
                      ELSE [q EXCEPT !.pc = "createDevicePath"]]
      [] q.pc = "createDevicePath" ->
            [reg |-> r,
             proc |-> [q EXCEPT !.path_ = IF q.path = ""
                                          THEN createDevicePath(r, clsids)
                                          ELSE q.path,
                                !.pc = "readSize"]]
      [] q.pc = "readSize" ->
            [reg |-> r,
             proc |-> [q EXCEPT !.cameraIndex =
                                    readInt(r, <<"Cameras", "">>, DefaultInt) + 1,
                                !.pc = "size"]]
      [] q.pc = "size" ->
            [reg |-> writeInt(r, <<"Cameras", "size">>, q.cameraIndex),
             proc |-> [q EXCEPT !.pc = "path"]]
      [] q.pc = "path" ->
            [reg |-> writeString(r, CameraKey(q.cameraIndex, <<"", "path">>),
                                 q.path_),
             proc |-> [q EXCEPT !.pc = "description"]]
      [] q.pc = "description" ->
            [reg |-> writeString(r, CameraKey(q.cameraIndex, <<"", "description">>),
                                 q.description),
             proc |-> [q EXCEPT !.pc = "formatsSize"]]
      [] q.pc = "formatsSize" ->
            [reg |-> writeInt(r, CameraKey(q.cameraIndex, <<"", "Formats", "size">>),
                              Len(q.formats)),
             proc |-> AfterFormat(q, 0)]
      [] q.pc = "format" ->
            [reg |-> writeString(r, Cat(prefix, <<"", "format">>),
                                 stringFromFourcc(format.fourcc)),
             proc |-> [q EXCEPT !.pc = "width"]]
      [] q.pc = "width" ->
            [reg |-> writeInt(r, Cat(prefix, <<"", "width">>), format.width),
             proc |-> [q EXCEPT !.pc = "height"]]
      [] q.pc = "height" ->
            [reg |-> writeInt(r, Cat(prefix, <<"", "height">>), format.height),
             proc |-> [q EXCEPT !.pc = "fps"]]
      [] q.pc = "fps" ->
            [reg |-> writeString(r, Cat(prefix, <<"", "fps">>),
                                 FractionToString(format.fps)),
             proc |-> AfterFormat(q, q.i + 1)]

\* one statement of addCamera(path, description, formats)
addCameraStep(r, clsids, q) ==
    LET prefix == FormatPrefix(q.cameraIndex, q.i + 1)
        format == q.formats[q.i + 1]
    IN
    CASE q.pc = "cameraExists" ->
            [reg |-> r,
             proc |-> IF q.path # "" /\ cameraExists(r, q.path)
                      THEN [q EXCEPT !.pc = "return", !.ret = ""]
                      ELSE [q EXCEPT !.pc = "createDevicePath"]]
      [] q.pc = "createDevicePath" ->
            [reg |-> r,
             proc |-> [q EXCEPT !.path_ = IF q.path = ""
                                          THEN createDevicePath(r, clsids)
                                          ELSE q.path,
                                !.pc = "readSize"]]
      [] q.pc = "readSize" ->
            [reg |-> r,
             proc |-> [q EXCEPT !.cameraIndex =
                                    readInt(r, <<"Cameras", "">>, DefaultInt) + 1,
                                !.pc = "size"]]
      [] q.pc = "size" ->
            [reg |-> writeInt(r, <<"Cameras", "size">>, q.cameraIndex),
             proc |-> [q EXCEPT !.pc = "description"]]
      [] q.pc = "description" ->
            [reg |-> writeString(r, CameraKey(q.cameraIndex, <<"", "description">>),
                                 q.description),
             proc |-> [q EXCEPT !.pc = "path"]]
      [] q.pc = "path" ->
            [reg |-> writeString(r, CameraKey(q.cameraIndex, <<"", "path">>),
                                 q.path_),
             proc |-> [q EXCEPT !.pc = "formatsSize"]]
      [] q.pc = "formatsSize" ->
            [reg |-> writeInt(r, CameraKey(q.cameraIndex, <<"", "Formats", "size">>),
                              Len(q.formats)),
             proc |-> AfterFormat(q, 0)]
      [] q.pc = "format" ->
            [reg |-> writeString(r, Cat(prefix, <<"", "format">>),
                                 stringFromFourcc(format.fourcc)),
             proc |-> [q EXCEPT !.pc = "width"]]
      [] q.pc = "width" ->
            [reg |-> writeInt(r, Cat(prefix, <<"", "width">>), format.width),
             proc |-> [q EXCEPT !.pc = "height"]]
      [] q.pc = "height" ->
            [reg |-> writeInt(r, Cat(prefix, <<"", "height">>), format.height),
             proc |-> [q EXCEPT !.pc = "fps"]]
      [] q.pc = "fps" ->
            [reg |-> writeString(r, Cat(prefix, <<"", "fps">>),
                                 FractionToString(format.fps)),
             proc |-> AfterFormat(q, q.i + 1)]

\* where removeCamera continues once the cameras below i (from 0) are in place
AfterMove(q, i) ==
    IF i < q.nCameras
    THEN [q EXCEPT !.i = i, !.pc = "move"]
    ELSE [q EXCEPT !.i = i, !.pc = "size"]

\* removeCamera writing the new count before it moves the cameras
removeCameraStep_CountFirst(r, q) ==
    CASE q.pc = "cameraFromPath" ->
            LET cameraIndex == cameraFromPath(r, q.path)
            IN  [reg |-> r,
                 proc |-> IF cameraIndex < 0
                          THEN [q EXCEPT !.pc = "return"]
                          ELSE [q EXCEPT !.cameraIndex = cameraIndex,
                                         !.pc = "formatsCount"]]
      [] q.pc = "formatsCount" ->
            [reg |-> r,
             proc |-> IF q.cameraIndex >= camerasCount(r)
                      THEN [q EXCEPT !.pc = "camerasCount"]
                      ELSE [q EXCEPT !.pc = "formatsDelete"]]
      [] q.pc = "formatsDelete" ->
            [reg |-> deleteKey(r, CameraKey(q.cameraIndex + 1,
                                            <<"", "Formats", "">>)),
             proc |-> [q EXCEPT !.pc = "formatsSize"]]
      [] q.pc = "formatsSize" ->
            [reg |-> writeInt(r, CameraKey(q.cameraIndex + 1,
                                           <<"", "Formats", "size">>), 0),
             proc |-> [q EXCEPT !.pc = "camerasCount"]]
      [] q.pc = "camerasCount" ->
            [reg |-> r,
             proc |-> [q EXCEPT !.nCameras = camerasCount(r),
                                !.pc = "deleteKey"]]
      [] q.pc = "deleteKey" ->
            [reg |-> deleteKey(r, CameraKey(q.cameraIndex + 1, <<"", "">>)),
             proc |-> [q EXCEPT !.i = q.cameraIndex + 1, !.pc = "size"]]
      [] q.pc = "size" ->
            [reg |-> IF q.nCameras > 1
                     THEN writeInt(r, <<"Cameras", "size">>, q.nCameras - 1)
                     ELSE deleteKey(r, <<"Cameras", "">>),
             proc |-> IF q.i < q.nCameras
                      THEN [q EXCEPT !.pc = "move"]
                      ELSE [q EXCEPT !.pc = "return"]]
      [] q.pc = "move" ->
            [reg |-> move(r, Cat(<<"Cameras", "">>, <<ToString(q.i + 1)>>),
                             Cat(<<"Cameras", "">>, <<ToString(q.i)>>)),
             proc |-> IF q.i + 1 < q.nCameras
                      THEN [q EXCEPT !.i = q.i + 1]
                      ELSE [q EXCEPT !.i = q.i + 1, !.pc = "return"]]

\* one statement of removeCamera(path), those of the cameraSetFormats it
\* calls included
removeCameraStep(r, q) ==
    CASE q.pc = "cameraFromPath" ->
            LET cameraIndex == cameraFromPath(r, q.path)
            IN  [reg |-> r,
                 proc |-> IF cameraIndex < 0
                          THEN [q EXCEPT !.pc = "return"]
                          ELSE [q EXCEPT !.cameraIndex = cameraIndex,
                                         !.pc = "formatsCount"]]
      [] q.pc = "formatsCount" ->
            [reg |-> r,
             proc |-> IF q.cameraIndex >= camerasCount(r)
                      THEN [q EXCEPT !.pc = "camerasCount"]
                      ELSE [q EXCEPT !.pc = "formatsDelete"]]
      [] q.pc = "formatsDelete" ->
            [reg |-> deleteKey(r, CameraKey(q.cameraIndex + 1,
                                            <<"", "Formats", "">>)),
             proc |-> [q EXCEPT !.pc = "formatsSize"]]
      [] q.pc = "formatsSize" ->
            [reg |-> writeInt(r, CameraKey(q.cameraIndex + 1,
                                           <<"", "Formats", "size">>), 0),
             proc |-> [q EXCEPT !.pc = "camerasCount"]]
      [] q.pc = "camerasCount" ->
            [reg |-> r,
             proc |-> [q EXCEPT !.nCameras = camerasCount(r),
                                !.pc = "deleteKey"]]
      [] q.pc = "deleteKey" ->
            [reg |-> deleteKey(r, CameraKey(q.cameraIndex + 1, <<"", "">>)),
             proc |-> AfterMove(q, q.cameraIndex + 1)]
      [] q.pc = "move" ->
            [reg |-> move(r, Cat(<<"Cameras", "">>, <<ToString(q.i + 1)>>),
                             Cat(<<"Cameras", "">>, <<ToString(q.i)>>)),
             proc |-> AfterMove(q, q.i + 1)]
      [] q.pc = "size" ->
            [reg |-> IF q.nCameras > 1
                     THEN writeInt(r, <<"Cameras", "size">>, q.nCameras - 1)
                     ELSE deleteKey(r, <<"Cameras", "">>),
             proc |-> [q EXCEPT !.pc = "return"]]

\* thread p enters addDevice
CallAddDevice(p) ==
    /\ procs[p].op = "idle"
    /\ camerasCount(reg) < MaxCameras
    /\ procs' = [procs EXCEPT ![p] = [Idle EXCEPT !.op = "addDevice",
                                                  !.pc = "createDevicePath",
                                                  !.description = "Cam A",
                                                  !.start = reg]]
    /\ UNCHANGED <<reg, last, returned, cameraClsids, writeDenied, mutex>>

\* thread p enters addCamera
CallAddCamera(p) ==
    \E path \in CallerPaths, formats \in SetFormatLists :
        /\ procs[p].op = "idle"
        /\ procs' = [procs EXCEPT ![p] = [Idle EXCEPT !.op = "addCamera",
                                                      !.pc = "cameraExists",
                                                      !.path = path,
                                                      !.description = "Cam B",
                                                      !.formats = formats,
                                                      !.start = reg]]
        /\ UNCHANGED <<reg, last, returned, cameraClsids, writeDenied, mutex>>

\* thread p enters removeCamera with the path of a registered camera or with
\* a path that no camera has
CallRemoveCamera(p) ==
    \E path \in {cameraPath(reg, j) : j \in 0..(camerasCount(reg) - 1)}
                    \cup {MissingPath} :
        /\ procs[p].op = "idle"
        /\ procs' = [procs EXCEPT ![p] = [Idle EXCEPT !.op = "removeCamera",
                                                      !.pc = "cameraFromPath",
                                                      !.path = path,
                                                      !.start = reg]]
        /\ UNCHANGED <<reg, last, returned, cameraClsids, writeDenied, mutex>>

\* the next statement of the operation that thread p is in
StepOf(p, op, s) ==
    /\ procs[p].op = op
    /\ procs[p].pc # "return"
    /\ reg' = s.reg
    /\ procs' = [procs EXCEPT ![p] = s.proc]
    /\ UNCHANGED <<last, returned, cameraClsids, writeDenied, mutex>>

AddDeviceStep ==
    \E p \in Procs :
        StepOf(p, "addDevice", addDeviceStep(reg, cameraClsids, procs[p]))

AddCameraStep ==
    \E p \in Procs :
        StepOf(p, "addCamera", addCameraStep(reg, cameraClsids, procs[p]))

RemoveCameraStep ==
    \E p \in Procs :
        StepOf(p, "removeCamera", removeCameraStep(reg, procs[p]))

\* the operation of a thread returns to its caller
Return ==
    \E p \in Procs :
        /\ procs[p].pc = "return"
        /\ last' = [op |-> procs[p].op,
                    args |-> [NoArgs EXCEPT !.path = procs[p].path,
                                            !.description = procs[p].description,
                                            !.formats = procs[p].formats],
                    ret |-> procs[p].ret, val |-> 0, sub |-> <<"">>,
                    seen |-> NoSeen]
        /\ returned' = NoRun
        /\ procs' = [procs EXCEPT ![p] = Idle]
        /\ UNCHANGED <<reg, cameraClsids, writeDenied, mutex>>

\* the calls of one thread, followed statement by statement
NextSteps ==
    \/ CallAddDevice(1) \/ CallAddCamera(1) \/ CallRemoveCamera(1)
    \/ AddDeviceStep \/ AddCameraStep \/ RemoveCameraStep \/ Return

SpecSteps == InitClean /\ [][NextSteps]_vars

\* two threads in addDevice with no lock around the calls
NextUnlocked ==
    CallAddDevice(1) \/ CallAddDevice(2) \/ AddDeviceStep \/ Return

SpecUnlocked == InitClean /\ [][NextUnlocked]_vars

\* a thread that holds no lock reads the count and the path of a camera
ReadCamera ==
    \E cameraIndex \in 0..(MaxCameras - 1) :
        /\ last' = [op |-> "cameraPath",
                    args |-> [NoArgs EXCEPT !.cameraIndex = cameraIndex],
                    ret |-> cameraPath(reg, cameraIndex),
                    val |-> camerasCount(reg), sub |-> <<"">>, seen |-> NoSeen]
        /\ returned' = NoRun
        /\ UNCHANGED <<reg, procs, cameraClsids, writeDenied, mutex>>

NextReader ==
    \/ CallAddDevice(1) \/ CallRemoveCamera(1)
    \/ AddDeviceStep \/ RemoveCameraStep \/ Return \/ ReadCamera

SpecReader == InitClean /\ [][NextReader]_vars

\* the kernel mutex of the Mutex object of thread p
Handle(m, p) == CreateMutexA(m.name[p], p)

\* a wait that returns whoever owns the mutex
WaitForSingleObject_Unowned(m, p) == TRUE

\* WaitForSingleObject(m_mutex, INFINITE) returns: the mutex is free or
\* owned by the calling thread
WaitForSingleObject(m, p) == m.owner[Handle(m, p)] \in {0, p}

\* the mutex once lock() has returned in thread p
lock(m, p) == [m EXCEPT !.owner[Handle(m, p)] = p]

\* ReleaseMutex releases a mutex owned by the calling thread only
unlock(m, p) ==
    IF m.owner[Handle(m, p)] = p
    THEN [m EXCEPT !.owner[Handle(m, p)] = 0]
    ELSE m

\* thread p is between lock() and unlock()
Holds(m, p) == m.owner[Handle(m, p)] = p

Lock ==
    \E p \in Procs :
        /\ procs[p].op = "idle"
        /\ ~Holds(mutex, p)
        /\ WaitForSingleObject(mutex, p)
        /\ mutex' = lock(mutex, p)
        /\ UNCHANGED <<reg, last, returned, cameraClsids, writeDenied, procs>>

Unlock ==
    \E p \in Procs :
        /\ procs[p].op = "idle"
        /\ Holds(mutex, p)
        /\ mutex' = unlock(mutex, p)
        /\ UNCHANGED <<reg, last, returned, cameraClsids, writeDenied, procs>>

\* a compound operation is called by a thread that holds the mutex
NextLocked ==
    \/ Lock \/ Unlock
    \/ \E p \in Procs : Holds(mutex, p) /\ CallAddDevice(p)
    \/ \E p \in Procs : Holds(mutex, p) /\ CallAddCamera(p)
    \/ \E p \in Procs : Holds(mutex, p) /\ CallRemoveCamera(p)
    \/ AddDeviceStep \/ AddCameraStep \/ RemoveCameraStep \/ Return

SpecLocked == InitClean /\ [][NextLocked]_vars

(* The Mutex objects by themselves: lock, tryLock, unlock, operator= *)

\* thread p waits in WaitForSingleObject, called by lock() or tryLock()
Waits(p) == procs[p].pc = "WaitForSingleObject"

\* thread p has returned from lock() or from a tryLock() that gave true and
\* has called neither unlock() nor operator= since
InCritical(p) ==
    /\ procs[p].pc = "return"
    /\ \/ procs[p].op = "lock"
       \/ procs[p].op = "tryLock" /\ procs[p].ret = "true"

\* thread p, in no call and not holding its Mutex, calls lock() (timeout 0,
\* the wait has no bound) or tryLock(timeout): the wait returns at once when
\* the kernel mutex is free, and the thread waits otherwise
WaitFor(p, op, timeout) ==
    /\ procs[p].pc \in {"", "return"}
    /\ procs[p].op \in {"idle", "lock", "tryLock"}
    /\ ~InCritical(p)
    /\ IF WaitForSingleObject(mutex, p)
       THEN /\ mutex' = lock(mutex, p)
            /\ procs' = [procs EXCEPT ![p] =
                            [Idle EXCEPT !.op = op, !.pc = "return",
                                         !.i = timeout,
                                         !.ret = IF op = "tryLock"
                                                 THEN "true" ELSE ""]]
       ELSE /\ mutex' = mutex
            /\ procs' = [procs EXCEPT ![p] =
                            [Idle EXCEPT !.op = op,
                                         !.pc = "WaitForSingleObject",
                                         !.i = timeout]]
    /\ UNCHANGED <<reg, last, returned, cameraClsids, writeDenied>>

LockCall == \E p \in Procs : WaitFor(p, "lock", 0)

TryLock == \E p \in Procs : \E timeout \in {0, 1000} : WaitFor(p, "tryLock", timeout)

\* the wait of thread p ends because the mutex was released to it
WaitReturns ==
    \E p \in Procs :
        /\ Waits(p)
        /\ Holds(mutex, p)
        /\ procs' = [procs EXCEPT ![p].pc = "return",
                                  ![p].ret = IF procs[p].op = "tryLock"
                                             THEN "true" ELSE ""]
        /\ UNCHANGED <<reg, last, returned, cameraClsids, writeDenied, mutex>>

\* tryLock with the timeout 0 giving up as with any other timeout
WaitTimesOut_ZeroIsNoWait ==
    \E p \in Procs :
        /\ Waits(p)
        /\ procs[p].op = "tryLock"
        /\ ~Holds(mutex, p)
        /\ procs' = [procs EXCEPT ![p].pc = "return", ![p].ret = "false"]
        /\ UNCHANGED <<reg, last, returned, cameraClsids, writeDenied, mutex>>

\* the timeout of a tryLock(timeout) passes with the mutex still owned by
\* another thread: WAIT_TIMEOUT, tryLock gives false; the timeout 0 is
\* turned into INFINITE and never passes
WaitTimesOut ==
    \E p \in Procs :
        /\ Waits(p)
        /\ procs[p].op = "tryLock"
        /\ procs[p].i # 0
        /\ ~Holds(mutex, p)
        /\ procs' = [procs EXCEPT ![p].pc = "return", ![p].ret = "false"]
        /\ UNCHANGED <<reg, last, returned, cameraClsids, writeDenied, mutex>>

\* ReleaseMutex by thread p on the handle of its Mutex: a mutex that p owns
\* goes to a thread that waits for it, and is free if there is none
ReleaseMutex(m, p) ==
    LET waiting == {q \in Procs \ {p} : Waits(q) /\ Handle(m, q) = Handle(m, p)}
    IN  IF Holds(m, p) /\ waiting # {}
        THEN {lock(unlock(m, p), q) : q \in waiting}
        ELSE {unlock(m, p)}

\* a thread in no call calls unlock()
UnlockCall ==
    \E p \in Procs :
        /\ procs[p].pc \in {"", "return"}
        /\ procs[p].op \in {"idle", "lock", "tryLock"}
        /\ mutex' \in ReleaseMutex(mutex, p)
        /\ procs' = [procs EXCEPT ![p] = Idle]
        /\ UNCHANGED <<reg, last, returned, cameraClsids, writeDenied>>

\* thread p assigns the Mutex of thread q to its own (operator=; the copy
\* constructor makes the handle the same way): unlock(), then a handle from
\* CreateMutexA with the name of the other
Assign ==
    \E p \in Procs : \E q \in Procs \ {p} :
        /\ procs[p].pc \in {"", "return"}
        /\ procs[p].op \in {"idle", "lock", "tryLock"}
        /\ \E m \in ReleaseMutex(mutex, p) :
              mutex' = [m EXCEPT !.name[p] = mutex.name[q]]
        /\ procs' = [procs EXCEPT ![p] = Idle]
        /\ last' = [op |-> "operator=", args |-> NoArgs, ret |-> mutex.name[q],
                    val |-> p, sub |-> <<"">>, seen |-> NoSeen]
        /\ UNCHANGED <<reg, returned, cameraClsids, writeDenied>>

NextMutex ==
    LockCall \/ TryLock \/ WaitReturns \/ WaitTimesOut \/ UnlockCall \/ Assign

\* two threads, each with a Mutex object of its own, made with no name or
\* with the name of the store's mutex
InitMutex ==
    /\ procs = [p \in Procs |-> Idle]
    /\ \E f \in [Procs -> {"", "AkVCamMutex"}] :
          mutex = [Mutex("") EXCEPT !.name = f]
    /\ reg = NoValues
    /\ last = [op |-> "none", args |-> NoArgs, ret |-> "", val |-> 0,
               sub |-> <<"">>, seen |-> NoSeen]
    /\ returned = [valid |-> TRUE, paths |-> <<>>]
    /\ cameraClsids = {}
    /\ writeDenied = {}

SpecMutex == InitMutex /\ [][NextMutex]_vars

(* The command line parser *)

\* m_commands as the constructor leaves it, cut down to the default entry
\* with its two options, a command with no option and a command with an
\* option that takes a value
m_commands ==
    <<[command |-> "",
       flags |-> <<[flags |-> <<"-h", "--help">>, value |-> ""],
                   [flags |-> <<"-p", "--parseable">>, value |-> ""]>>],
      [command |-> "devices", flags |-> <<>>],
      [command |-> "add-format",
       flags |-> <<[flags |-> <<"-i", "--index">>, value |-> "INDEX"]>>]>>

\* parserCommand(command): the position in m_commands of the first entry
\* with that name, 0 for nullptr
parserCommand(command) ==
    LET found == {k \in 1..Len(m_commands) : m_commands[k].command = command}
    IN  IF found = {} THEN 0 ELSE CHOOSE k \in found : \A j \in found : k <= j

\* parserFlag(cmdFlags, flag): the position in cmdFlags of the first entry
\* that lists flag, 0 for nullptr
parserFlag(cmdFlags, flag) ==
    LET found == {k \in 1..Len(cmdFlags) :
                     \E j \in 1..Len(cmdFlags[k].flags) : cmdFlags[k].flags[j] = flag}
    IN  IF found = {} THEN 0 ELSE CHOOSE k \in found : \A j \in found : k <= j

\* the loop of parse from argv[i] on, then the call of the selected command:
\* command is a position in m_commands, flags the map filled so far, calls
\* the commands whose function was called, func[c] the result of the
\* function of the command named c; the arguments that start with '-' are
\* those of the set options
RECURSIVE parseFrom(_, _, _, _, _, _, _)
parseFrom(argv, i, command, flags, calls, func, options) ==
    LET name == m_commands[command].command
    IN  IF i > Len(argv)
        THEN [result |-> func[name], calls |-> Append(calls, name)]
        ELSE IF argv[i] \in options
        THEN LET flag == parserFlag(m_commands[command].flags, argv[i])
                 takesNext == /\ m_commands[command].flags[flag].value # ""
                              /\ i + 1 <= Len(argv)
                 value == IF takesNext THEN argv[i + 1] ELSE ""
             IN  IF flag = 0
                 THEN [result |-> -1, calls |-> calls]
                 ELSE parseFrom(argv, IF takesNext THEN i + 2 ELSE i + 1,
                                command,
                                [k \in DOMAIN flags \cup {argv[i]} |->
                                    IF k = argv[i] THEN value ELSE flags[k]],
                                calls, func, options)
        ELSE IF name = ""
        THEN IF DOMAIN flags # {} /\ func[name] < 0
             THEN [result |-> func[name], calls |-> Append(calls, name)]
             ELSE LET called == IF DOMAIN flags # {}
                                THEN Append(calls, name) ELSE calls
                      cmd == parserCommand(argv[i])
                  IN  IF cmd # 0
                      THEN parseFrom(argv, i + 1, cmd, <<>>, called, func,
                                     options)
                      ELSE [result |-> -1, calls |-> called]
        ELSE parseFrom(argv, i + 1, command, flags, calls, func, options)

\* the program is run, once, with up to MaxArgc arguments after the
\* program name, each function giving 0 or a negative result; last.sub is
\* the argument list, last.val the result of parse and last.seen the names
\* of the commands whose function was called, in order
Parse ==
    /\ last.op = "none"
    /\ \E n \in 0..MaxArgc :
       \E argv \in [1..n -> {"", "-p", "-i", "-x", "devices", "add-format",
                             "bogus"}] :
       \E func \in [{"", "devices", "add-format"} -> {-2, 0}] :
          LET parse == parseFrom(argv, 1, 1, <<>>, <<>>, func,
                                 {"-p", "-i", "-x"})
          IN  last' = [op |-> "parse",
                       args |-> [NoArgs EXCEPT !.outcome = func],
                       ret |-> "", val |-> parse.result,
                       sub |-> argv, seen |-> parse.calls]
    /\ UNCHANGED <<reg, returned>>
    /\ UNCHANGED env

SpecParse == InitClean /\ [][Parse]_vars

(* Subtree operations on the camera containers *)

\* "Cameras\\" + std::to_string(n), the keys removeCamera hands to move
CameraKeys == {Cat(<<"Cameras", "">>, <<ToString(n)>>) : n \in {1, 2}}

\* how the backend calls of one move end: all succeed ("ok"), the source
\* cannot be opened ("open"), the destination cannot be created ("create"),
\* copyTree fails before it copied anything ("copy") or after it copied the
\* values of the source container ("copyPart")
Move ==
    \E keyFrom \in CameraKeys \cup {<<"Cameras", "1", "">>},
       keyTo \in CameraKeys,
       outcome \in {"ok", "open", "create", "copy", "copyPart"} :
        /\ NormPath(keyFrom) # NormPath(keyTo)
        /\ reg' = moveWith(reg, keyFrom, keyTo, outcome)
        /\ last' = [op |-> "move",
                    args |-> [NoArgs EXCEPT !.keyFrom = keyFrom, !.keyTo = keyTo,
                                            !.outcome = outcome],
                    ret |-> "", val |-> 0, sub |-> <<"">>, seen |-> NoSeen]
        /\ returned' = NoRun
        /\ UNCHANGED env

\* the keys handed to deleteKey: a value, and a container named by a
\* trailing separator
DeleteKey ==
    \E key \in {<<"Cameras", "1", "path">>, <<"Cameras", "1", "">>} :
        /\ reg' = deleteKey(reg, key)
        /\ last' = [op |-> "deleteKey",
                    args |-> [NoArgs EXCEPT !.key = key],
                    ret |-> "", val |-> 0, sub |-> <<"">>, seen |-> NoSeen]
        /\ returned' = NoRun
        /\ UNCHANGED env

(* Typed reads *)

\* readInt is handed the default 42 and readString the default "none", with
\* the key of a count, of a path, or of a value of the root container that
\* is never written
\* the registry as a call finds it: when the backend is not available,
\* RegOpenKeyExA succeeds for no key
Backend(r, available) == IF available THEN r ELSE [k \in {} |-> NoValues]

ReadInt ==
    \E key \in {<<"Cameras", "size">>, <<"Cameras", "1", "path">>,
                <<"nonexistent">>},
       available \in BOOLEAN :
        /\ reg' = reg
        /\ last' = [op |-> "readInt",
                    args |-> [NoArgs EXCEPT !.key = key,
                                            !.defaultInt = 42,
                                            !.available = available],
                    ret |-> "",
                    val |-> readInt(Backend(reg, available), key, 42),
                    sub |-> <<"">>, seen |-> NoSeen]
        /\ returned' = NoRun
        /\ UNCHANGED env

ReadString ==
    \E key \in {<<"Cameras", "size">>, <<"Cameras", "1", "path">>,
                <<"nonexistent">>},
       available \in BOOLEAN :
        /\ reg' = reg
        /\ last' = [op |-> "readString",
                    args |-> [NoArgs EXCEPT !.key = key,
                                            !.defaultString = "none",
                                            !.available = available],
                    ret |-> readString(Backend(reg, available), key,
                                       "none"),
                    val |-> 0, sub |-> <<"">>, seen |-> NoSeen]
        /\ returned' = NoRun
        /\ UNCHANGED env

\* the keys handed to splitSubKey: without a separator, with one, with a
\* trailing one, with a leading one, and the empty key
SplitSubKey ==
    \E key \in {<<"picture">>, <<"Cameras", "size">>, <<"Cameras", "1", "">>,
                <<"", "loglevel">>, <<"">>} :
        /\ reg' = reg
        /\ last' = [op |-> "splitSubKey",
                    args |-> [NoArgs EXCEPT !.key = key],
                    ret |-> splitSubKey(key).value, val |-> 0,
                    sub |-> splitSubKey(key).subKey, seen |-> NoSeen]
        /\ returned' = NoRun
        /\ UNCHANGED env

NextStore == AddCamera \/ Move \/ DeleteKey

SpecStore == InitClean /\ [][NextStore]_vars

NextRead ==
    AddCamera \/ DeleteKey \/ ReadInt \/ ReadString \/ SplitSubKey

SpecRead == InitClean /\ [][NextRead]_vars

----------------------------------------------------------------------------
(* Properties of the device registry *)

PathsDistinct(r) ==
    \A j, k \in 0..(camerasCount(r) - 1) :
        j # k => cameraPath(r, j) # cameraPath(r, k)

\* the indices n for which a container Cameras\n exists
CameraContainers(r) ==
    {k[5] : k \in {c \in DOMAIN r : Len(c) >= 5 /\ c[4] = "Cameras"}}

CamerasKey == <<"SOFTWARE", "Webcamoid", "VirtualCamera", "Cameras">>

IndexNames(n) == {ToString(k) : k \in 1..n}

\* the last operation called createDevicePath
CalledCreateDevicePath(l) ==
    \/ l.op \in {"createDevicePath", "addDevice"}
    \/ l.op = "addCamera" /\ l.args.path = ""

\* the paths of the registered cameras
RegisteredPaths(r) == {cameraPath(r, j) : j \in 0..(camerasCount(r) - 1)}

\* candidate i is free: its path is none of paths and its CLSID is not in use
FreeCandidate(paths, clsids, i) ==
    /\ DevicePath(i) \notin paths
    /\ createClsidFromStr(DevicePath(i)) \notin clsids

\* C1: removeCamera(p), p being the path at index i of N >= 1 cameras with
\* pairwise distinct paths, leaves N - 1 cameras; the paths below i stay and
\* every path from i on is the one formerly one index higher.
C1_RemoveReindexes ==
    [][(/\ last'.op = "removeCamera"
        /\ last'.seen.index >= 0
        /\ PathsDistinct(reg))
       => LET N == camerasCount(reg)
              i == last'.seen.index
          IN  /\ camerasCount(reg') = N - 1
              /\ \A j \in 0..(N - 2) :
                    cameraPath(reg', j) = IF j < i THEN cameraPath(reg, j)
                                                  ELSE cameraPath(reg, j + 1)]_vars

\* the first of at least two cameras has been removed
C1_Witness ==
    /\ last.op = "removeCamera"
    /\ last.seen.index = 0
    /\ last.seen.count >= 2
    /\ camerasCount(reg) = last.seen.count - 1
    /\ PathsDistinct(reg)
    /\ ~cameraExists(reg, last.args.path)

\* C2: a successful addCamera on a registry of n cameras appends: the count
\* becomes n + 1, the cameras at 0..n-1 keep path and description, and index n
\* holds the returned path and the given description.
C2_AddCameraAppends ==
    [][(/\ last'.op = "addCamera"
        /\ ~(last'.args.path # "" /\ cameraExists(reg, last'.args.path)))
       => LET n == camerasCount(reg)
          IN  /\ camerasCount(reg') = n + 1
              /\ \A j \in 0..(n - 1) :
                    /\ cameraPath(reg', j) = cameraPath(reg, j)
                    /\ cameraDescription(reg', j) = cameraDescription(reg, j)
              /\ cameraPath(reg', n) = last'.ret
              /\ cameraDescription(reg', n) = last'.args.description]_vars

\* C3: with no CLSID registered in the system, the paths returned by
\* addCamera("", ...) called in succession on the empty registry are
\* non-empty, pairwise distinct, and so are their CLSIDs.
C3_SuccessiveAddCameraDistinct ==
    (returned.valid /\ cameraClsids = {})
    => /\ \A a \in 1..Len(returned.paths) : returned.paths[a] # ""
       /\ \A a, b \in 1..Len(returned.paths) :
            a # b => /\ returned.paths[a] # returned.paths[b]
                     /\ createClsidFromStr(returned.paths[a])
                            # createClsidFromStr(returned.paths[b])

\* C5: no gaps: every index below camerasCount() holds a non-empty path.
C5_NoGaps ==
    \A j \in 0..(camerasCount(reg) - 1) : cameraPath(reg, j) # ""

\* C6: no two indices below camerasCount() hold the same path.
C6_PathsUnique == PathsDistinct(reg)

\* C8: after removeCamera on N cameras stored in the containers 1..N, the
\* containers are exactly 1..N-1, and for N = 1 the Cameras container is gone.
C8_RemoveLeavesNoContainer ==
    [][(/\ last'.op = "removeCamera"
        /\ last'.seen.index >= 0
        /\ CameraContainers(reg) = IndexNames(camerasCount(reg)))
       => LET N == camerasCount(reg)
          IN  /\ CameraContainers(reg') = IndexNames(N - 1)
              /\ (N = 1 => CamerasKey \notin DOMAIN reg')]_vars

C10_FirstFit ==
    [][CalledCreateDevicePath(last')
       => LET paths == RegisteredPaths(reg)
          IN  (\E i \in 0..(maxId - 1) : FreeCandidate(paths, cameraClsids, i))
              => \E k \in 0..(maxId - 1) :
                   /\ last'.ret = DevicePath(k)
                   /\ FreeCandidate(paths, cameraClsids, k)
                   /\ \A i \in 0..(k - 1) :
                         ~FreeCandidate(paths, cameraClsids, i)]_vars

\* candidate 0 has its CLSID in use, candidate 1 is a registered camera, and
\* createDevicePath returned candidate 2
C10_Witness ==
    /\ last.op = "createDevicePath"
    /\ createClsidFromStr(DevicePath(0)) \in cameraClsids
    /\ cameraExists(reg, DevicePath(1))
    /\ last.ret = DevicePath(2)

\* C11: when none of the candidates 0..63 is free, createDevicePath returns
\* the empty string: no candidate with an index of 64 or more is returned.
C11_ExhaustedReturnsEmpty ==
    [][CalledCreateDevicePath(last')
       => LET paths == RegisteredPaths(reg)
          IN  (\A i \in 0..(maxId - 1) : ~FreeCandidate(paths, cameraClsids, i))
              => last'.ret = ""]_vars

\* createDevicePath returned the empty string with candidate 0 taken by a
\* registered camera and the other candidates taken by CLSIDs in use
C11_Witness ==
    /\ last.op = "createDevicePath"
    /\ last.ret = ""
    /\ cameraExists(reg, DevicePath(0))
    /\ createClsidFromStr(DevicePath(0)) \notin cameraClsids

\* C12: addCamera with a non-empty path that is already registered returns
\* the empty string and leaves the whole backend unchanged.
C12_AddCameraExistingPath ==
    [][(/\ last'.op = "addCamera"
        /\ last'.args.path # ""
        /\ cameraExists(reg, last'.args.path))
       => /\ last'.ret = ""
          /\ reg' = reg]_vars

\* addCamera was refused for a path that a camera holds
C12_Witness ==
    /\ last.op = "addCamera"
    /\ last.args.path = DevicePath(1)
    /\ last.ret = ""
    /\ cameraExists(reg, DevicePath(1))

\* C13: removeCamera with a path that no camera below camerasCount() holds
\* leaves the backend unchanged.
C13_RemoveMissingIsNoOp ==
    [][(/\ last'.op = "removeCamera"
        /\ ~cameraExists(reg, last'.args.path))
       => reg' = reg]_vars

\* removeCamera was called with an unregistered path while cameras exist
C13_Witness ==
    /\ last.op = "removeCamera"
    /\ last.args.path = MissingPath
    /\ last.seen.index = -1
    /\ camerasCount(reg) >= 1

----------------------------------------------------------------------------
(* Properties of the format list and of the subtree operations *)

\* C4: cameraRemoveFormat(c, i) on an existing camera c whose format list L
\* has more than i >= 0 elements makes the list L without its element i.
C4_RemoveFormatErases ==
    [][(/\ last'.op = "cameraRemoveFormat"
        /\ last'.args.cameraIndex < camerasCount(reg)
        /\ last'.args.index >= 0
        /\ last'.args.index < Len(cameraFormats(reg, last'.args.cameraIndex)))
       => LET c == last'.args.cameraIndex
              L == cameraFormats(reg, c)
          IN  /\ formatsCount(reg', c) = Len(L) - 1
              /\ cameraFormats(reg', c) = Erase(L, last'.args.index)]_vars

\* C14: after cameraSetFormats(c, F) on an existing camera c, with F a list
\* of valid formats, cameraFormats(c) is F, element by element and in the
\* same order, whatever was stored for c before.
C14_FormatRoundTrip ==
    [][(/\ last'.op = "cameraSetFormats"
        /\ last'.args.cameraIndex < camerasCount(reg)
        /\ \A k \in 1..Len(last'.args.formats) :
              IsValidFormat(last'.args.formats[k]))
       => LET c == last'.args.cameraIndex
              F == last'.args.formats
          IN  /\ formatsCount(reg', c) = Len(F)
              /\ \A k \in 1..Len(F) : cameraFormat(reg', c, k - 1) = F[k]
              /\ cameraFormats(reg', c) = F]_vars

\* a list of two formats was replaced by a list of one other format
C14_Witness ==
    /\ last.op = "cameraSetFormats"
    /\ last.seen.count = 2
    /\ last.args.formats = <<FormatB>>
    /\ cameraFormats(reg, last.args.cameraIndex) = <<FormatB>>

\* C15: cameraAddFormat(c, f, index) on an existing camera c with format
\* list L makes the list L with f inserted at index when 0 <= index <= |L|,
\* and L with f appended otherwise; formatsCount(c) becomes |L| + 1.
C15_AddFormatInserts ==
    [][(/\ last'.op = "cameraAddFormat"
        /\ last'.args.cameraIndex < camerasCount(reg))
       => LET c == last'.args.cameraIndex
              f == last'.args.formats[1]
              L == cameraFormats(reg, c)
              at == IF 0 <= last'.args.index /\ last'.args.index <= Len(L)
                    THEN last'.args.index ELSE Len(L)
          IN  /\ formatsCount(reg', c) = Len(L) + 1
              /\ cameraFormats(reg', c)
                    = SubSeq(L, 1, at) \o <<f>> \o SubSeq(L, at + 1, Len(L))]_vars

\* a format was inserted in front of the one format stored before
C15_Witness ==
    /\ last.op = "cameraAddFormat"
    /\ last.args.index = 0
    /\ last.seen.count = 1
    /\ last.args.formats = <<FormatB>>
    /\ cameraFormats(reg, last.args.cameraIndex) = <<FormatB, FormatA>>

\* C16: cameraRemoveFormat(c, index) with index < 0 or index >= the number
\* of formats of camera c leaves the backend as it was.
C16_RemoveFormatOutOfRange ==
    [][(/\ last'.op = "cameraRemoveFormat"
        /\ \/ last'.args.index < 0
           \/ last'.args.index >= Len(cameraFormats(reg, last'.args.cameraIndex)))
       => reg' = reg]_vars

\* cameraRemoveFormat was called with the index one past the last format of
\* a camera that holds formats
C16_Witness ==
    /\ last.op = "cameraRemoveFormat"
    /\ Len(cameraFormats(reg, last.args.cameraIndex)) >= 1
    /\ last.args.index = Len(cameraFormats(reg, last.args.cameraIndex))

\* C18: in every reachable state cameraFormat(c, k) with k >= formatsCount(c)
\* is an invalid format for every registered camera c.
C18_NoFormatBeyondCount ==
    \A c \in 0..(camerasCount(reg) - 1), k \in 0..MaxStored :
        k >= formatsCount(reg, c) => ~IsValidFormat(cameraFormat(reg, c, k))

\* C19: a mutating schema operation addressed to a camera index >=
\* camerasCount() creates no container and writes no value.
C19_OutOfRangeIndexIsNoOp ==
    [][(/\ last'.op \in {"cameraSetDescription", "cameraSetFormats",
                         "cameraAddFormat", "cameraRemoveFormat",
                         "cameraSetControlValue"}
        /\ last'.args.cameraIndex >= camerasCount(reg))
       => reg' = reg]_vars

\* the container of the controls of the camera at cameraIndex
ControlsContainer(cameraIndex) ==
    CamerasKey \o <<ToString(cameraIndex + 1), "Controls">>

\* C20: cameraSetControlValue(c, name, v) makes cameraControlValue(c, name)
\* return v and changes no other control of camera c, no control of another
\* camera, no path, description, format list or the count, and no other
\* stored value; every control reads 0 at first and no other operation
\* (removeCamera's reindexing apart) changes what a control reads.
C20_ControlsKeyedByName ==
    [][/\ last.op = "none"
          => \A c \in ControlCameras, n \in ControlNames :
                cameraControlValue(reg, c, n) = 0
       /\ last'.op = "cameraSetControlValue"
          => LET c == last'.args.cameraIndex
                 name == last'.args.key[1]
                 StoredValues(r) ==
                     UNION {{<<k, n, r[k][n]>> : n \in DOMAIN r[k]} :
                               k \in DOMAIN r}
                 Others(r) == {x \in StoredValues(r) :
                                 ~(x[1] = ControlsContainer(c) /\ x[2] = name)}
             IN  /\ cameraControlValue(reg', c, name) = last'.args.value
                 /\ \A c2 \in ControlCameras, n2 \in ControlNames :
                       (c2 # c \/ n2 # name)
                       => cameraControlValue(reg', c2, n2)
                            = cameraControlValue(reg, c2, n2)
                 /\ camerasCount(reg') = camerasCount(reg)
                 /\ \A j \in 0..(MaxCameras - 1) :
                       /\ cameraPath(reg', j) = cameraPath(reg, j)
                       /\ cameraDescription(reg', j) = cameraDescription(reg, j)
                       /\ cameraFormats(reg', j) = cameraFormats(reg, j)
                 /\ Others(reg') = Others(reg)
       /\ last'.op \notin {"cameraSetControlValue", "removeCamera"}
          => \A c \in ControlCameras, n \in ControlNames :
                cameraControlValue(reg', c, n) = cameraControlValue(reg, c, n)]_vars

\* a control of the first of two cameras was set while its other control and
\* the same control of the second camera hold another value, and a control
\* never set reads 0
C20_Witness ==
    /\ last.op = "cameraSetControlValue"
    /\ last.args.cameraIndex = 1
    /\ last.args.key = <<"hue">>
    /\ last.args.value = 5
    /\ camerasCount(reg) = 2
    /\ cameraFormats(reg, 0) = <<FormatB>>
    /\ cameraControlValue(reg, 1, "hue") = 5
    /\ cameraControlValue(reg, 1, "contrast") = 7
    /\ cameraControlValue(reg, 0, "hue") = 7
    /\ cameraControlValue(reg, 0, "contrast") = 0

\* the Cameras container of r with everything beneath it
CamerasSubtree(r) ==
    [k \in {c \in DOMAIN r : IsPrefix(CamerasKey, c)} |-> r[k]]

\* C21: picture() and logLevel() return the value last given to setPicture
\* and setLogLevel, logLevel() being the library default at first; no other
\* operation changes either value, and setPicture and setLogLevel change
\* nothing under Cameras.
C21_SettingsIndependent ==
    [][/\ last.op = "none" => logLevel(reg) = AKVCAM_LOGLEVEL_DEFAULT
       /\ last'.op = "setPicture"
          => /\ picture(reg') = last'.args.picture
             /\ logLevel(reg') = logLevel(reg)
             /\ CamerasSubtree(reg') = CamerasSubtree(reg)
       /\ last'.op = "setLogLevel"
          => /\ logLevel(reg') = last'.args.value
             /\ picture(reg') = picture(reg)
             /\ CamerasSubtree(reg') = CamerasSubtree(reg)
       /\ last'.op \notin {"setPicture", "setLogLevel"}
          => /\ picture(reg') = picture(reg)
             /\ logLevel(reg') = logLevel(reg)]_vars

\* both settings are still there after the last camera has been removed
C21_Witness ==
    /\ last.op = "removeCamera"
    /\ last.seen.count = 1
    /\ last.seen.index = 0
    /\ camerasCount(reg) = 0
    /\ picture(reg) = "b.png"
    /\ logLevel(reg) = 7

\* the registry r holds a value of the given type for key
Stored(r, key, dataType) ==
    LET container == <<"SOFTWARE", "Webcamoid", "VirtualCamera">>
                        \o NormPath(SubSeq(key, 1, Len(key) - 1))
        leaf == key[Len(key)]
    IN  /\ container \in DOMAIN r
        /\ leaf \in DOMAIN r[container]
        /\ r[container][leaf][1] = dataType

\* C17: readInt(key, d) and readString(key, d) return d when the container
\* is absent, the value is absent or of another type, or the backend cannot
\* be opened; they return the stored value otherwise, and they never modify
\* the backend.
C17_DefaultOnMiss ==
    [][/\ last'.op = "readInt"
          => /\ reg' = reg
             /\ last'.val =
                  IF last'.args.available
                     /\ Stored(reg, last'.args.key, "REG_DWORD")
                  THEN reg[<<"SOFTWARE", "Webcamoid", "VirtualCamera">>
                            \o NormPath(SubSeq(last'.args.key, 1,
                                               Len(last'.args.key) - 1))]
                          [last'.args.key[Len(last'.args.key)]][2]
                  ELSE last'.args.defaultInt
       /\ last'.op = "readString"
          => /\ reg' = reg
             /\ last'.ret =
                  IF last'.args.available
                     /\ Stored(reg, last'.args.key, "REG_SZ")
                  THEN reg[<<"SOFTWARE", "Webcamoid", "VirtualCamera">>
                            \o NormPath(SubSeq(last'.args.key, 1,
                                               Len(last'.args.key) - 1))]
                          [last'.args.key[Len(last'.args.key)]][2]
                  ELSE last'.args.defaultString]_vars

\* readInt returned its default for a value that the existing root container
\* does not hold
C17_Witness ==
    /\ last.op = "readInt"
    /\ last.args.available
    /\ last.args.key = <<"nonexistent">>
    /\ <<"SOFTWARE", "Webcamoid", "VirtualCamera">> \in DOMAIN reg
    /\ last.val = 42

\* the key path move opens for a key
MoveSubKey(key) == NormPath(Cat(Cat(REG_PREFIX, <<"", "">>), key))

\* C7: after move(from, to) of an existing source, every backend call
\* succeeding, the destination holds every value and nested container the
\* source held, and neither the source container nor anything beneath it
\* exists any more.
C7_MoveCopiesAndDeletes ==
    [][(/\ last'.op = "move"
        /\ last'.args.outcome = "ok"
        /\ MoveSubKey(last'.args.keyFrom) \in DOMAIN reg)
       => LET f == MoveSubKey(last'.args.keyFrom)
              t == MoveSubKey(last'.args.keyTo)
          IN  /\ \A c \in DOMAIN reg :
                    IsPrefix(f, c)
                    => LET d == t \o SubSeq(c, Len(f) + 1, Len(c))
                       IN  /\ d \in DOMAIN reg'
                           /\ \A n \in DOMAIN reg[c] :
                                 /\ n \in DOMAIN reg'[d]
                                 /\ reg'[d][n] = reg[c][n]
              /\ \A c \in DOMAIN reg' : ~IsPrefix(f, c)]_vars

\* the part of r at the key f and beneath it
Subtree(r, f) == [k \in {c \in DOMAIN r : IsPrefix(f, c)} |-> r[k]]

\* C22: when move cannot open the source, cannot create the destination or
\* its copy fails, the source container and everything beneath it are as
\* they were.
C22_FailedMoveKeepsSource ==
    [][(/\ last'.op = "move"
        /\ \/ last'.args.outcome # "ok"
           \/ MoveSubKey(last'.args.keyFrom) \notin DOMAIN reg)
       => Subtree(reg', MoveSubKey(last'.args.keyFrom))
            = Subtree(reg, MoveSubKey(last'.args.keyFrom))]_vars

\* a move by a key with a trailing separator failed in its copy: the source
\* still holds its format list, the destination holds the copied path only
C22_Witness ==
    /\ last.op = "move"
    /\ last.args.outcome = "copyPart"
    /\ last.args.keyFrom = <<"Cameras", "1", "">>
    /\ LET f == MoveSubKey(last.args.keyFrom)
           t == MoveSubKey(last.args.keyTo)
       IN  /\ f \o <<"Formats">> \in DOMAIN reg
           /\ t \in DOMAIN reg
           /\ "path" \in DOMAIN reg[t]
           /\ t \o <<"Formats">> \notin DOMAIN reg

\* the container that a key names by everything before its last separator
KeyContainer(key) ==
    <<"SOFTWARE", "Webcamoid", "VirtualCamera">>
        \o NormPath(SubSeq(key, 1, Len(key) - 1))

\* C23: deleteKey(key) with a non-empty leaf name removes that value only;
\* with an empty leaf (trailing separator) it removes the named container
\* and everything beneath it, and nothing outside that subtree.
C23_DeleteKey ==
    [][last'.op = "deleteKey"
       => LET c == KeyContainer(last'.args.key)
              leaf == last'.args.key[Len(last'.args.key)]
          IN  IF leaf # ""
              THEN /\ DOMAIN reg' = DOMAIN reg
                   /\ \A k \in DOMAIN reg :
                         /\ DOMAIN reg'[k]
                              = IF k = c THEN DOMAIN reg[k] \ {leaf}
                                         ELSE DOMAIN reg[k]
                         /\ \A n \in DOMAIN reg'[k] : reg'[k][n] = reg[k][n]
              ELSE /\ DOMAIN reg' = {k \in DOMAIN reg : ~IsPrefix(c, k)}
                   /\ \A k \in DOMAIN reg' : reg'[k] = reg[k]]_vars

\* the path of the first camera was deleted: its description and its format
\* list are still stored
C23_Witness ==
    /\ last.op = "deleteKey"
    /\ last.args.key = <<"Cameras", "1", "path">>
    /\ LET c == KeyContainer(last.args.key)
       IN  /\ c \in DOMAIN reg
           /\ "path" \notin DOMAIN reg[c]
           /\ "description" \in DOMAIN reg[c]
           /\ c \o <<"Formats", "1">> \in DOMAIN reg

\* C24: splitSubKey maps a key without a separator to the fixed root and the
\* whole key; any other key to the root followed by a separator and all that
\* precedes the last separator of the key, and to what follows that separator,
\* which is empty for a key that ends with a separator.
C24_SplitSubKey ==
    [][last'.op = "splitSubKey"
       => LET key == last'.args.key
          IN  IF Len(key) = 1
              THEN /\ last'.sub = <<"SOFTWARE", "Webcamoid", "VirtualCamera", "">>
                   /\ last'.ret = key[1]
              ELSE /\ last'.sub
                        = <<"SOFTWARE", "Webcamoid", "VirtualCamera", "">>
                            \o SubSeq(key, 1, Len(key) - 1)
                   /\ last'.ret = key[Len(key)]]_vars

\* a key with a trailing separator was split into its container and an
\* empty leaf
C24_Witness ==
    /\ last.op = "splitSubKey"
    /\ last.args.key = <<"Cameras", "1", "">>
    /\ last.sub = <<"SOFTWARE", "Webcamoid", "VirtualCamera", "", "Cameras", "1">>
    /\ last.ret = ""

\* C25: a write whose container cannot be opened or created changes nothing:
\* no value of such a container ever changes; the operation that issued it
\* returns as usual and carries out its other writes.
C25_FailedWriteDropped ==
    [][/\ \A k \in writeDenied :
             LET ValuesOf(r) == IF k \in DOMAIN r THEN r[k] ELSE NoValues
             IN  ValuesOf(reg') = ValuesOf(reg)
       /\ last'.op = "setPicture"
          => picture(reg') = IF RootKey \in writeDenied
                             THEN picture(reg) ELSE last'.args.picture
       /\ last'.op = "cameraSetControlValue"
          => LET c == last'.args.cameraIndex
                 name == last'.args.key[1]
             IN  cameraControlValue(reg', c, name)
                   = IF ControlsContainer(c) \in writeDenied
                     THEN cameraControlValue(reg, c, name)
                     ELSE last'.args.value
       /\ last'.op = "addDevice"
          => LET n == camerasCount(reg)
                 k == ToString(n + 1)
             IN  /\ last'.ret = createDevicePath(reg, cameraClsids)
                 /\ last'.ret # ""
                 /\ readInt(reg', <<"Cameras", "size">>, 0)
                      = IF CamerasKey \in writeDenied THEN n ELSE n + 1
                 /\ CamerasKey \o <<k>> \notin writeDenied
                    => /\ readString(reg', <<"Cameras", k, "path">>, "")
                            = last'.ret
                       /\ readString(reg', <<"Cameras", k, "description">>, "")
                            = last'.args.description]_vars

\* addDevice returned a path and raised the count although the container of
\* the new camera refused its description and its path
C25_Witness ==
    /\ last.op = "addDevice"
    /\ last.ret = DevicePath(0)
    /\ writeDenied = {RootKey \o <<"Cameras", "1">>}
    /\ camerasCount(reg) = 1
    /\ cameraPath(reg, 0) = ""

\* C26: addCamera writes the count, the description, the path, the size of
\* the format list and for each format its code, width, height and frame
\* rate, in this order: every step of addCamera that changes the registry
\* is one of these writes and all writes before it are already stored; the
\* call returns its path only when all are stored.
C26_AddCameraWriteOrder ==
    [][\A p \in Procs :
          procs[p].op = "addCamera" /\ procs'[p] # procs[p]
          => LET q == procs[p]
                 n == q.cameraIndex
                 Write(key, dataType, data) ==
                     [key |-> key, type |-> dataType, data |-> data]
                 Written(r, w) ==
                     LET v == readValue(r, w.key, w.type)
                     IN  v.ok /\ v.data = w.data
                 W == <<Write(<<"Cameras", "size">>, "REG_DWORD", n),
                        Write(CameraKey(n, <<"", "description">>), "REG_SZ",
                              q.description),
                        Write(CameraKey(n, <<"", "path">>), "REG_SZ", q.path_),
                        Write(CameraKey(n, <<"", "Formats", "size">>),
                              "REG_DWORD", Len(q.formats))>>
                      \o [k \in 1..(4 * Len(q.formats)) |->
                            LET format == q.formats[((k - 1) \div 4) + 1]
                                prefix == FormatPrefix(n, ((k - 1) \div 4) + 1)
                            IN  CASE (k - 1) % 4 = 0 ->
                                        Write(Cat(prefix, <<"", "format">>), "REG_SZ",
                                              stringFromFourcc(format.fourcc))
                                  [] (k - 1) % 4 = 1 ->
                                        Write(Cat(prefix, <<"", "width">>),
                                              "REG_DWORD", format.width)
                                  [] (k - 1) % 4 = 2 ->
                                        Write(Cat(prefix, <<"", "height">>),
                                              "REG_DWORD", format.height)
                                  [] (k - 1) % 4 = 3 ->
                                        Write(Cat(prefix, <<"", "fps">>), "REG_SZ",
                                              FractionToString(format.fps))]
             IN  /\ reg' # reg
                    => \E j \in 1..Len(W) :
                          /\ reg' = setValue(reg, W[j].key, W[j].type, W[j].data)
                          /\ \A k \in 1..(j - 1) : Written(reg, W[k])
                 /\ procs'[p].pc = "return" /\ procs'[p].ret # ""
                    => \A k \in 1..Len(W) : Written(reg', W[k])]_vars

\* between two steps of addCamera the count is already 1 while the first
\* camera has no path yet
C26_Witness ==
    \E p \in Procs :
        /\ procs[p].op = "addCamera"
        /\ procs[p].pc # "return"
        /\ camerasCount(procs[p].start) = 0
        /\ camerasCount(reg) = 1
        /\ cameraPath(reg, 0) = ""

\* the cameras above index c of the n that r0 holds are at their new index in r
MovedDown(r0, r, c, n, upTo) ==
    \A i \in (c + 1)..upTo : cameraPath(r, i - 1) = cameraPath(r0, i)

\* C27: removeCamera first clears the Formats subtree of the removed camera,
\* then deletes the container of the camera, then moves the cameras above it
\* down by one from the lowest to the highest, and only then writes the
\* decremented count or deletes the Cameras container: every step that
\* changes the registry is one of these, taken when the steps before it are
\* done.
C27_RemoveCameraStepOrder ==
    [][\A p \in Procs :
          procs[p].op = "removeCamera" /\ procs'[p] # procs[p] /\ reg' # reg
          => LET q == procs[p]
                 c == q.cameraIndex
                 n == camerasCount(q.start)
                 container == CameraKey(c + 1, <<"", "">>)
                 formats == CameraKey(c + 1, <<"", "Formats", "">>)
                 cleared == writeInt(deleteKey(q.start, formats),
                                     CameraKey(c + 1, <<"", "Formats", "size">>), 0)
             IN  \/ /\ reg = q.start
                    /\ reg' = deleteKey(reg, formats)
                 \/ /\ reg = deleteKey(q.start, formats)
                    /\ reg' = cleared
                 \/ /\ reg = cleared
                    /\ reg' = deleteKey(reg, container)
                 \/ \E i \in (c + 1)..(n - 1) :
                       /\ i = c + 1 => CamerasKey \o <<ToString(c + 1)>> \notin DOMAIN reg
                       /\ camerasCount(reg) = n
                       /\ MovedDown(q.start, reg, c, n, i - 1)
                       /\ reg' = move(reg, Cat(<<"Cameras", "">>, <<ToString(i + 1)>>),
                                           Cat(<<"Cameras", "">>, <<ToString(i)>>))
                 \/ /\ MovedDown(q.start, reg, c, n, n - 1)
                    /\ cameraPath(reg, c) # q.path
                    /\ reg' = IF n > 1
                              THEN writeInt(reg, <<"Cameras", "size">>, n - 1)
                              ELSE deleteKey(reg, <<"Cameras", "">>)]_vars

\* the first of two cameras is being removed: the second has moved down and
\* the count is still 2
C27_Witness ==
    \E p \in Procs :
        /\ procs[p].op = "removeCamera"
        /\ procs[p].pc # "return"
        /\ camerasCount(procs[p].start) = 2
        /\ cameraPath(procs[p].start, 0) = procs[p].path
        /\ camerasCount(reg) = 2
        /\ cameraPath(reg, 0) = cameraPath(procs[p].start, 1)

\* thread p is in a removeCamera that has changed the registry
Removing(p) ==
    /\ procs[p].op = "removeCamera"
    /\ reg # procs[p].start

C29_LockedRunsAreSerial ==
    [][/\ \A p \in Procs :
             procs'[p].pc = "return" /\ procs[p].pc # "return"
                => LET q == procs'[p]
                       res == CASE q.op = "addDevice" ->
                                     addDevice(q.start, cameraClsids, q.description)
                                [] q.op = "addCamera" ->
                                     addCamera(q.start, cameraClsids, q.path,
                                               q.description, q.formats)
                                [] q.op = "removeCamera" ->
                                     [reg |-> removeCamera(q.start, q.path),
                                      ret |-> ""]
                   IN  reg' = res.reg /\ q.ret = res.ret
       /\ \A path \in RegisteredPaths(reg) \ {""} :
             \/ path \in RegisteredPaths(reg')
             \/ \E p \in Procs : /\ procs[p].op = "removeCamera"
                                  /\ procs[p].path = path
       /\ (\A p \in Procs : procs'[p].op = "idle")
             => /\ PathsDistinct(reg')
                /\ \A j \in 0..(camerasCount(reg') - 1) : cameraPath(reg', j) # ""]_vars

\* C30: removeCamera(p) keeps the data of every other camera: the camera
\* with a given path has after the call the description, the format list and
\* the value of every control that it had before the call.
C30_RemovePreservesSurvivors ==
    [][last'.op = "removeCamera"
       => \A j \in 0..(camerasCount(reg) - 1) :
            LET path == cameraPath(reg, j)
                k == cameraFromPath(reg', path)
            IN  path # last'.args.path
                => /\ k >= 0
                   /\ cameraDescription(reg', k) = cameraDescription(reg, j)
                   /\ cameraFormats(reg', k) = cameraFormats(reg, j)
                   /\ \A name \in ControlNames :
                        cameraControlValue(reg', k, name)
                          = cameraControlValue(reg, j, name)]_vars

\* C31: a camera created by addDevice starts clean: its format list is empty
\* and every control of it reads 0, whatever was added and removed before.
C31_NewCameraStartsClean ==
    [][last'.op = "addDevice" /\ last'.ret # ""
       => LET n == camerasCount(reg)
          IN  /\ cameraPath(reg', n) = last'.ret
              /\ cameraFormats(reg', n) = <<>>
              /\ \A name \in ControlNames :
                    cameraControlValue(reg', n, name) = 0]_vars

\* C32: cameraAddFormat(c, f, i) and cameraRemoveFormat(c, i) touch camera c
\* only: the count and the path, description, format list and controls of
\* every other camera stay, and afterwards every camera container belongs to
\* a registered camera.
C32_FormatOpsTouchOneCamera ==
    [][last'.op \in {"cameraAddFormat", "cameraRemoveFormat"}
       => /\ camerasCount(reg') = camerasCount(reg)
          /\ \A j \in 0..(camerasCount(reg) - 1) :
                j # last'.args.cameraIndex
                => /\ cameraPath(reg', j) = cameraPath(reg, j)
                   /\ cameraDescription(reg', j) = cameraDescription(reg, j)
                   /\ cameraFormats(reg', j) = cameraFormats(reg, j)
                   /\ \A name \in ControlNames :
                         cameraControlValue(reg', j, name)
                           = cameraControlValue(reg, j, name)
          /\ CameraContainers(reg') \subseteq IndexNames(camerasCount(reg'))]_vars

\* C33: when createDevicePath finds no free candidate, addDevice and
\* addCamera with an empty path return the empty string and leave the
\* registry as it is.
C33_ExhaustedAddChangesNothing ==
    [][/\ \/ last'.op = "addDevice"
          \/ last'.op = "addCamera" /\ last'.args.path = ""
       /\ createDevicePath(reg, cameraClsids) = ""
       => /\ last'.ret = ""
          /\ reg' = reg]_vars

\* C34: addDevice(description) with n cameras registered and a free
\* candidate returns a path that was not registered, makes the count n + 1
\* and stores the path and the description at index n; the paths and
\* descriptions at the indices below n stay.
C34_AddDeviceAppends ==
    [][last'.op = "addDevice" /\ createDevicePath(reg, cameraClsids) # ""
       => LET n == camerasCount(reg)
          IN  /\ last'.ret # ""
              /\ last'.ret \notin RegisteredPaths(reg)
              /\ camerasCount(reg') = n + 1
              /\ cameraPath(reg', n) = last'.ret
              /\ cameraDescription(reg', n) = last'.args.description
              /\ \A j \in 0..(n - 1) :
                    /\ cameraPath(reg', j) = cameraPath(reg, j)
                    /\ cameraDescription(reg', j) = cameraDescription(reg, j)]_vars

\* addDevice has appended a camera with the path that an earlier removal freed
C34_Witness ==
    /\ last.op = "addDevice"
    /\ last.ret = DevicePath(0)
    /\ camerasCount(reg) = 2
    /\ cameraPath(reg, 0) = DevicePath(1)
    /\ cameraPath(reg, 1) = DevicePath(0)

\* C35: with no lock, two addDevice calls whose steps interleave can read
\* the same count and find the same free path: when both have finished
\* their writes, they wrote the same index and return the same path, and one
\* camera was added (the count is the count they read plus 1, and the path
\* is the one at the last index).
C35_InterleavedAddDeviceLosesOne ==
    \A p \in Procs : \A q \in Procs \ {p} :
        /\ procs[p].op = "addDevice" /\ procs[p].pc = "return"
        /\ procs[q].op = "addDevice" /\ procs[q].pc = "return"
        /\ procs[p].cameraIndex = procs[q].cameraIndex
        /\ procs[p].path = procs[q].path
        => /\ procs[p].ret = procs[q].ret
           /\ camerasCount(reg) = procs[p].cameraIndex
           /\ cameraPath(reg, procs[p].cameraIndex - 1) = procs[p].ret

\* both threads called addDevice on the empty registry, both return the
\* same path and one camera is registered
C35_Witness ==
    /\ \A p \in Procs :
          /\ procs[p].op = "addDevice" /\ procs[p].pc = "return"
          /\ procs[p].start = NoValues
          /\ procs[p].ret = DevicePath(0)
          /\ procs[p].cameraIndex = 1
    /\ camerasCount(reg) = 1

C39_ParseRejectsUnknown ==
    last.op = "parse"
    => LET argv == last.sub
           func == last.args.outcome
           options == {"-p", "-i", "-x"}
           registered == [c \in {"devices", "add-format"} |->
                             IF c = "add-format" THEN {"-i"} ELSE {}]
           first == CHOOSE k \in 1..(Len(argv) + 1) :
                       /\ \A j \in 1..(k - 1) : argv[j] = "-p"
                       /\ k <= Len(argv) => argv[k] # "-p"
           refused == IF first > 1 /\ func[""] < 0 THEN func[""] ELSE -1
           named == {k \in 1..Len(last.seen) : last.seen[k] # ""}
       IN  /\ first <= Len(argv) /\ argv[first] \in options
              => last.val = -1 /\ named = {}
           /\ /\ first <= Len(argv)
              /\ argv[first] \notin options
              /\ argv[first] \notin DOMAIN registered
              => last.val = refused /\ named = {}
           /\ /\ first < Len(argv)
              /\ argv[first] \in DOMAIN registered
              /\ argv[first + 1] \in options \ registered[argv[first]]
              => last.val = refused /\ named = {}
           /\ /\ first <= Len(argv)
              /\ first > 1
              /\ argv[first] \in DOMAIN registered
              /\ func[""] < 0
              => last.val = func[""] /\ named = {}

====
